---------------------------- MODULE Spec2Model ----------------------------
(***************************************************************************)
(* A model of resume-optimizer: the keyword comparator (lib/analyze), the   *)
(* template payload builder and filler (lib/template-populate), the         *)
(* overlay merge of the optimize route and the placeholder injector of      *)
(* scripts/generate-template.                                               *)
(*                                                                          *)
(* A JavaScript string is a sequence of one-character strings, so that      *)
(* indexOf, split, replace, trim and toLowerCase are computed on the        *)
(* characters.  An optional value (undefined / null) is None == <<>> and a   *)
(* present value v is Some(v) == <<v>>.                                      *)
(***************************************************************************)
EXTENDS Naturals, Sequences, FiniteSets, TLC

VARIABLES
  pc,             \* the operation that has been applied to the inputs
  resume,         \* parsed: ParsedResume
  optimized,      \* optimized?: OptimizedSections | null (an option)
  jobDescription, \* the job text of token mode
  keywordList,    \* the phrase list of phrase-list mode
  response,       \* AnalyzeResponse {missingKeywords, matchedKeywords}
  payload,        \* Record<string,string> as a sequence of <<key, value>> in insertion order
  merged,         \* the result of mergeOptimizedIntoResume
  docXml,         \* the text of word/document.xml
  docHistory,     \* the document texts seen so far, oldest first
  rows,           \* the resumes table: id -> row
  log,            \* what the requests and runs did, oldest first
  files           \* the .docx files on disk: name -> package

vars == <<pc, resume, optimized, jobDescription, keywordList, response, payload,
          merged, docXml, docHistory, rows, log, files>>

---------------------------------------------------------------------------
(* Options *)

None == <<>>
Some(v) == <<v>>
IsNullish(o) == o = <<>>
Get(o) == o[1]
\* a ?? b
Coalesce(a, b) == IF IsNullish(a) THEN b ELSE a
\* Boolean(o) for an optional string: neither undefined nor ""
Truthy(o) == o # <<>> /\ o[1] # <<>>

---------------------------------------------------------------------------
(* Characters and strings *)

UPPER == <<"A","B","C","D","E","F","G","H","I","J","K","L","M",
           "N","O","P","Q","R","S","T","U","V","W","X","Y","Z">>
LOWER == <<"a","b","c","d","e","f","g","h","i","j","k","l","m",
           "n","o","p","q","r","s","t","u","v","w","x","y","z">>
DIGITS == <<"0","1","2","3","4","5","6","7","8","9">>

Range(s) == { s[i] : i \in 1..Len(s) }
UpperSet == Range(UPPER)
LowerSet == Range(LOWER)
DigitSet == Range(DIGITS)

\* \w of a JavaScript regular expression: [A-Za-z0-9_]
IsWordChar(c) == c \in UpperSet \cup LowerSet \cup DigitSet \cup {"_"}
\* \s of a JavaScript regular expression (the ASCII part)
IsSpaceChar(c) == c \in {" ", "\t", "\n", "\r"}

LowerChar(c) ==
  IF c \in UpperSet THEN LOWER[CHOOSE i \in 1..26 : UPPER[i] = c] ELSE c

\* String.prototype.toLowerCase
ToLowerCase(s) == [i \in 1..Len(s) |-> LowerChar(s[i])]

\* whether `from` occurs in s at position i (1-based)
MatchAt(s, i, from) ==
  /\ i >= 1
  /\ i + Len(from) - 1 <= Len(s)
  /\ \A k \in 1..Len(from) : s[i + k - 1] = from[k]

\* String.prototype.indexOf, 1-based; 0 stands for JavaScript's -1
IndexFrom(s, from, i) ==
  IF \E k \in i..(Len(s) - Len(from) + 1) : MatchAt(s, k, from)
  THEN CHOOSE k \in i..(Len(s) - Len(from) + 1) :
         MatchAt(s, k, from) /\ \A j \in i..(k - 1) : ~MatchAt(s, j, from)
  ELSE 0

IndexOf(s, from) == IndexFrom(s, from, 1)

\* String.prototype.includes
Includes(s, from) == IndexOf(s, from) # 0

\* s.slice(i) with a 1-based start
SliceFrom(s, i) == IF i > Len(s) THEN <<>> ELSE SubSeq(s, i, Len(s))

RECURSIVE JoinFrom(_, _, _)
JoinFrom(parts, sep, i) ==
  IF i > Len(parts) THEN <<>>
  ELSE IF i = Len(parts) THEN parts[i]
  ELSE parts[i] \o sep \o JoinFrom(parts, sep, i + 1)

\* Array.prototype.join
Join(parts, sep) == JoinFrom(parts, sep, 1)

\* the pieces of s from position i on, after those of acc; at is the next
\* occurrence of sep from i on (0: none)
RECURSIVE SplitFrom(_, _, _, _, _)
SplitFrom(s, sep, i, at, acc) ==
  IF at = 0 THEN Append(acc, SliceFrom(s, i))
  ELSE SplitFrom(s, sep, at + Len(sep), IndexFrom(s, sep, at + Len(sep)),
                 Append(acc, SubSeq(s, i, at - 1)))

\* String.prototype.split with a non-empty separator string
Split(s, sep) == SplitFrom(s, sep, 1, IndexFrom(s, sep, 1), <<>>)

RECURSIVE TrimStart(_)
TrimStart(s) ==
  IF s # <<>> /\ IsSpaceChar(s[1]) THEN TrimStart(Tail(s)) ELSE s

RECURSIVE TrimEnd(_)
TrimEnd(s) ==
  IF s # <<>> /\ IsSpaceChar(s[Len(s)]) THEN TrimEnd(SubSeq(s, 1, Len(s) - 1)) ELSE s

\* String.prototype.trim
Trim(s) == TrimEnd(TrimStart(s))

\* Array.prototype.filter / map on a sequence
RECURSIVE FlatConcat(_)
FlatConcat(ss) == IF ss = <<>> THEN <<>> ELSE Head(ss) \o FlatConcat(Tail(ss))

---------------------------------------------------------------------------
(* lib/types *)

EmptyContact == [name |-> None, email |-> None, phone |-> None,
                 location |-> None, linkedin |-> None]

\* minimalResume of the analyze tests: every section empty
MinimalResume ==
  [contact |-> EmptyContact, education |-> <<>>, experience |-> <<>>,
   projects |-> <<>>, skills |-> <<>>, otherSections |-> None]

EmptyEducation == [school |-> None, degree |-> None, dates |-> None,
                   gpa |-> None, rawText |-> None]
EmptyExperience == [company |-> None, role |-> None, location |-> None,
                    dates |-> None, subheader |-> None, bullets |-> Some(<<>>)]
EmptyProject == [title |-> None, bullets |-> Some(<<>>)]

\* e.bullets ?? []
BulletsOf(e) == IF IsNullish(e.bullets) THEN <<>> ELSE Get(e.bullets)

---------------------------------------------------------------------------
(* lib/analyze *)

\* .replace(/[^\w\s]/g, " ")
ReplaceNonWord(s) ==
  [i \in 1..Len(s) |-> IF IsWordChar(s[i]) \/ IsSpaceChar(s[i]) THEN s[i] ELSE " "]

\* .replace(/\s+/g, " ")
RECURSIVE CollapseSpaces(_)
CollapseSpaces(s) ==
  IF s = <<>> THEN <<>>
  ELSE IF IsSpaceChar(s[1])
       THEN <<" ">> \o CollapseSpaces(TrimStart(s))
       ELSE <<s[1]>> \o CollapseSpaces(Tail(s))

\* /^\d+$/.test(s)
IsNumeric(s) == s # <<>> /\ \A i \in 1..Len(s) : s[i] \in DigitSet

\* the filter of tokenize: s.length > 2 && !/^\d+$/.test(s)
\* faulty variant: tokens of length 2 are kept
KeepTokenLen2(s) == Len(s) > 1 /\ ~IsNumeric(s)
KeepToken(s) == Len(s) > 2 /\ ~IsNumeric(s)

\* new Set(array): the distinct elements in the order of first insertion
RECURSIVE SetOrder(_, _)
SetOrder(arr, acc) ==
  IF arr = <<>> THEN acc
  ELSE SetOrder(Tail(arr),
                IF Head(arr) \in Range(acc) THEN acc ELSE Append(acc, Head(arr)))

Tokenize(text) ==
  LET normalized == CollapseSpaces(ReplaceNonWord(ToLowerCase(text)))
      words == Split(normalized, <<" ">>)
      trimmed == [i \in 1..Len(words) |-> Trim(words[i])]
  IN SetOrder(SelectSeq(trimmed, KeepToken), <<>>)

\* [..].filter(Boolean) on a list of optional strings, giving the strings
RECURSIVE FilterBoolean(_)
FilterBoolean(opts) ==
  IF opts = <<>> THEN <<>>
  ELSE IF Truthy(Head(opts)) THEN <<Get(Head(opts))>> \o FilterBoolean(Tail(opts))
       ELSE FilterBoolean(Tail(opts))

SomeAll(strs) == [i \in 1..Len(strs) |-> Some(strs[i])]

\* e.rawText ?? [e.school, e.degree].filter(Boolean).join(" ")
EducationText(e) ==
  IF IsNullish(e.rawText)
  THEN Join(FilterBoolean(<<e.school, e.degree>>), <<" ">>)
  ELSE Get(e.rawText)

\* the parts array of resumeText, before .filter(Boolean)
ResumeParts(r) ==
  <<r.contact.name, r.contact.email, Some(Join(r.skills, <<" ">>))>>
  \o FlatConcat([i \in 1..Len(r.experience) |->
        <<r.experience[i].company, r.experience[i].role>>
        \o SomeAll(BulletsOf(r.experience[i]))])
  \o FlatConcat([i \in 1..Len(r.projects) |->
        <<r.projects[i].title>> \o SomeAll(BulletsOf(r.projects[i]))])
  \o [i \in 1..Len(r.education) |-> Some(EducationText(r.education[i]))]

\* faulty variant: the parts are joined without the separating space
ResumeTextNoSpace(r) == Join(FilterBoolean(ResumeParts(r)), <<>>)
ResumeText(r) == Join(FilterBoolean(ResumeParts(r)), <<" ">>)

\* faulty variant: the else is lost, every job token is pushed to missingKeywords
RECURSIVE CompareLoopNoElse(_, _, _)
CompareLoopNoElse(jobTokens, resumeTokens, acc) ==
  IF jobTokens = <<>> THEN acc
  ELSE LET t == Head(jobTokens) IN
       CompareLoopNoElse(Tail(jobTokens), resumeTokens,
         IF t \in Range(resumeTokens)
         THEN [acc EXCEPT !.matchedKeywords = Append(@, t),
                          !.missingKeywords = Append(@, t)]
         ELSE [acc EXCEPT !.missingKeywords = Append(@, t)])

\* the for loop of compareKeywords
RECURSIVE CompareLoop(_, _, _)
CompareLoop(jobTokens, resumeTokens, acc) ==
  IF jobTokens = <<>> THEN acc
  ELSE LET t == Head(jobTokens) IN
       CompareLoop(Tail(jobTokens), resumeTokens,
         IF t \in Range(resumeTokens)
         THEN [acc EXCEPT !.matchedKeywords = Append(@, t)]
         ELSE [acc EXCEPT !.missingKeywords = Append(@, t)])

EmptyResponse == [missingKeywords |-> <<>>, matchedKeywords |-> <<>>]

CompareKeywords(r, jd) ==
  CompareLoop(Tokenize(jd), Tokenize(ResumeText(r)), EmptyResponse)

\* faulty variant: the phrase is not lower-cased before the search
RECURSIVE ListLoopCaseSensitive(_, _, _)
ListLoopCaseSensitive(kws, text, acc) ==
  IF kws = <<>> THEN acc
  ELSE LET normalized == Trim(Head(kws)) IN
       ListLoopCaseSensitive(Tail(kws), text,
         IF normalized = <<>> THEN acc
         ELSE IF Includes(text, normalized)
              THEN [acc EXCEPT !.matchedKeywords = Append(@, normalized)]
              ELSE [acc EXCEPT !.missingKeywords = Append(@, normalized)])

\* the for loop of compareKeywordList
RECURSIVE ListLoop(_, _, _)
ListLoop(kws, text, acc) ==
  IF kws = <<>> THEN acc
  ELSE LET normalized == Trim(Head(kws)) IN
       ListLoop(Tail(kws), text,
         IF normalized = <<>> THEN acc
         ELSE IF Includes(text, ToLowerCase(normalized))
              THEN [acc EXCEPT !.matchedKeywords = Append(@, normalized)]
              ELSE [acc EXCEPT !.missingKeywords = Append(@, normalized)])

CompareKeywordList(r, kws) ==
  ListLoop(kws, ToLowerCase(ResumeText(r)), EmptyResponse)

---------------------------------------------------------------------------
(* Inputs of the keyword comparator *)

MaxJobPieces == 3
MaxSkills == 2
MaxKeywords == 2

W_Go == <<"G","o">>
W_lang == <<"l","a","n","g">>
W_Golang == <<"G","o","l","a","n","g">>
W_42 == <<"4","2">>
Tok_golang == <<"g","o","l","a","n","g">>

\* the pieces a job text is concatenated from
JobPieces == { W_Go, W_lang, W_Golang, <<" ">>, <<"+">>, W_42 }

SeqsUpTo(S, n) == UNION { [1..k -> S] : k \in 0..n }

JobTexts == { FlatConcat(p) : p \in SeqsUpTo(JobPieces, MaxJobPieces) }

\* the values a resume field takes
ResumeVals == { W_Go, W_lang, W_Golang }

OneExperience(e) == [MinimalResume EXCEPT !.experience = <<e>>]
OneProject(p) == [MinimalResume EXCEPT !.projects = <<p>>]
OneEducation(e) == [MinimalResume EXCEPT !.education = <<e>>]

\* resumes with a single field filled, one for every field resumeText reads
OneFieldResumes ==
  UNION { { [MinimalResume EXCEPT !.contact.name = Some(v)],
            [MinimalResume EXCEPT !.contact.email = Some(v)],
            OneExperience([EmptyExperience EXCEPT !.company = Some(v)]),
            OneExperience([EmptyExperience EXCEPT !.role = Some(v)]),
            OneExperience([EmptyExperience EXCEPT !.bullets = Some(<<v>>)]),
            OneProject([EmptyProject EXCEPT !.title = Some(v)]),
            OneProject([EmptyProject EXCEPT !.bullets = Some(<<v>>)]),
            OneEducation([EmptyEducation EXCEPT !.rawText = Some(v)]),
            OneEducation([EmptyEducation EXCEPT !.school = Some(v)]),
            OneEducation([EmptyEducation EXCEPT !.degree = Some(v)]) }
          : v \in ResumeVals }

\* resumes with two adjacent parts filled, and resumes with a skill list
TwoFieldResumes ==
  { [MinimalResume EXCEPT !.contact.name = Some(v), !.contact.email = Some(w)]
      : v \in ResumeVals, w \in ResumeVals }
  \cup { OneEducation([EmptyEducation EXCEPT !.school = Some(v), !.degree = Some(w)])
      : v \in ResumeVals, w \in ResumeVals }
  \cup { OneEducation([EmptyEducation EXCEPT !.rawText = Some(v), !.school = Some(w)])
      : v \in ResumeVals, w \in ResumeVals }

SkillResumes ==
  { [MinimalResume EXCEPT !.skills = sk] : sk \in SeqsUpTo(ResumeVals, MaxSkills) }

AnalyzeResumes == OneFieldResumes \cup TwoFieldResumes \cup SkillResumes

\* the phrases of a keyword list: blank, padded mixed case, lower case, absent
Phrases == { <<" "," ">>, <<" ","G","o"," ","L"," ">>, <<"g","o","l">>,
             <<"n","g">>, <<"A","P","I">> }

KeywordLists == SeqsUpTo(Phrases, MaxKeywords)

---------------------------------------------------------------------------
(* The analyze request: token mode or phrase-list mode on one resume *)

\* the resumes table is empty and nothing was sent, called or written
IdleStore ==
  /\ rows = <<>>
  /\ log = <<>>
  /\ files = <<>>

IdleRest ==
  /\ IdleStore
  /\ optimized = None
  /\ payload = <<>>
  /\ merged = MinimalResume
  /\ docXml = <<>>
  /\ docHistory = <<>>

InitAnalyze ==
  /\ pc = "ready"
  /\ resume \in AnalyzeResumes
  /\ \/ jobDescription \in JobTexts /\ keywordList = <<>>
     \/ jobDescription = <<>> /\ keywordList \in KeywordLists
  /\ response = EmptyResponse
  /\ IdleRest

AnalyzeTokens ==
  /\ pc = "ready"
  /\ response' = CompareKeywords(resume, jobDescription)
  /\ pc' = "compareKeywords"
  /\ UNCHANGED <<resume, optimized, jobDescription, keywordList, payload, merged,
                 docXml, docHistory, rows, log, files>>

AnalyzeList ==
  /\ pc = "ready"
  /\ response' = CompareKeywordList(resume, keywordList)
  /\ pc' = "compareKeywordList"
  /\ UNCHANGED <<resume, optimized, jobDescription, keywordList, payload, merged,
                 docXml, docHistory, rows, log, files>>

NextAnalyze == AnalyzeTokens \/ AnalyzeList

SpecAnalyze == InitAnalyze /\ [][NextAnalyze]_vars

---------------------------------------------------------------------------
(* Claims on the keyword comparator *)

Matched == Range(response.matchedKeywords)
Missing == Range(response.missingKeywords)

\* C1: in token mode the matched and the missing keywords partition the job's
\* token set: their union is exactly tokenize(J), they share no token, and no
\* token is listed twice.
C1_TokenPartition ==
  pc = "compareKeywords" =>
    /\ Matched \cup Missing = Range(Tokenize(jobDescription))
    /\ Matched \cap Missing = {}
    /\ Len(response.matchedKeywords) + Len(response.missingKeywords)
         = Cardinality(Range(Tokenize(jobDescription)))

C1_Witness ==
  /\ pc = "compareKeywords"
  /\ response.matchedKeywords # <<>>
  /\ response.missingKeywords # <<>>

\* the tokens of every field resumeText is said to read, field by field
FieldTokens(o) == IF IsNullish(o) THEN {} ELSE Range(Tokenize(Get(o)))
ListTokens(strs) == UNION { Range(Tokenize(strs[i])) : i \in 1..Len(strs) }
ResumeTokenSet(r) ==
  FieldTokens(r.contact.name) \cup FieldTokens(r.contact.email)
  \cup ListTokens(r.skills)
  \cup UNION { FieldTokens(r.experience[i].company) \cup FieldTokens(r.experience[i].role)
               \cup ListTokens(BulletsOf(r.experience[i])) : i \in 1..Len(r.experience) }
  \cup UNION { FieldTokens(r.projects[i].title) \cup ListTokens(BulletsOf(r.projects[i]))
               : i \in 1..Len(r.projects) }
  \cup UNION { IF IsNullish(r.education[i].rawText)
               THEN FieldTokens(r.education[i].school) \cup FieldTokens(r.education[i].degree)
               ELSE FieldTokens(r.education[i].rawText) : i \in 1..Len(r.education) }

\* C2: a job token is matched if and only if it is a token of one of the resume
\* fields (name, email, skills, experience company/role/bullets, project
\* title/bullets, education rawText or else school and degree); a token that is
\* only a substring of a resume token is missing.
C2_TokenClassification ==
  pc = "compareKeywords" =>
    \A t \in Range(Tokenize(jobDescription)) :
      /\ (t \in Matched) <=> (t \in ResumeTokenSet(resume))
      /\ (t \in Missing) <=> (t \notin ResumeTokenSet(resume))

C2_Witness ==
  /\ pc = "compareKeywords"
  /\ response.matchedKeywords # <<>>
  /\ \E t \in Missing : \E u \in ResumeTokenSet(resume) : t # u /\ Includes(u, t)

GoResume == [MinimalResume EXCEPT !.skills = <<W_Go>>]

\* C3: every token of token mode is lower case, longer than 2 and not purely
\* numeric; with the only skill "Go" the job token "golang" is missing.
C3_TokenFilter ==
  pc = "compareKeywords" =>
    /\ \A t \in Matched \cup Missing \cup Range(Tokenize(ResumeText(resume))) :
         /\ t = ToLowerCase(t)
         /\ \A i \in 1..Len(t) : t[i] \notin UpperSet
         /\ Len(t) > 2
         /\ ~IsNumeric(t)
    /\ (resume = GoResume /\ Tok_golang \in Range(Tokenize(jobDescription)))
         => (Tok_golang \in Missing /\ Tok_golang \notin Matched)

C3_Witness ==
  /\ pc = "compareKeywords"
  /\ resume = GoResume
  /\ Tok_golang \in Missing
  /\ Includes(jobDescription, W_42)

\* C4: phrase-list mode lists every non-blank phrase, trimmed and in its own
\* casing, as matched when its lower-case form is a substring of the lower-case
\* resume text and as missing otherwise, in input order; blank phrases are in
\* neither list.
C4_PhraseList ==
  pc = "compareKeywordList" =>
    LET trimmed == [i \in 1..Len(keywordList) |-> Trim(keywordList[i])]
        NonBlank(p) == p # <<>>
        InText(p) == Includes(ToLowerCase(ResumeText(resume)), ToLowerCase(p))
        NotInText(p) == ~InText(p)
        kept == SelectSeq(trimmed, NonBlank)
    IN /\ response.matchedKeywords = SelectSeq(kept, InText)
       /\ response.missingKeywords = SelectSeq(kept, NotInText)

C4_Witness ==
  /\ pc = "compareKeywordList"
  /\ \E i \in 1..Len(keywordList) : Trim(keywordList[i]) = <<>>
  /\ \E i \in 1..Len(keywordList) :
       /\ Trim(keywordList[i]) # keywordList[i]
       /\ ToLowerCase(keywordList[i]) # keywordList[i]
       /\ Trim(keywordList[i]) \in Matched
  /\ Len(keywordList) = 2

---------------------------------------------------------------------------
(* lib/template-populate: buildTemplatePayload *)

MAX_EDUCATION == 2
MAX_EXPERIENCE == 3
MAX_EXPERIENCE_BULLETS == 4
MAX_PROJECTS == 2
MAX_PROJECT_BULLETS == 2

\* the words of the dotted placeholder paths
K_contact == <<"c","o","n","t","a","c","t">>
K_name == <<"n","a","m","e">>
K_phone == <<"p","h","o","n","e">>
K_email == <<"e","m","a","i","l">>
K_location == <<"l","o","c","a","t","i","o","n">>
K_linkedin == <<"l","i","n","k","e","d","i","n">>
K_skills == <<"s","k","i","l","l","s">>
K_education == <<"e","d","u","c","a","t","i","o","n">>
K_school == <<"s","c","h","o","o","l">>
K_degree == <<"d","e","g","r","e","e">>
K_dates == <<"d","a","t","e","s">>
K_gpa == <<"g","p","a">>
K_experience == <<"e","x","p","e","r","i","e","n","c","e">>
K_company == <<"c","o","m","p","a","n","y">>
K_role == <<"r","o","l","e">>
K_subheader == <<"s","u","b","h","e","a","d","e","r">>
K_bullet == <<"b","u","l","l","e","t">>
K_projects == <<"p","r","o","j","e","c","t","s">>
K_title == <<"t","i","t","l","e">>

\* `${i}` for an index below 10
NumStr(i) == <<DIGITS[i + 1]>>

\* a dotted path, e.g. experience.1.bullet.0
Path(parts) == Join(parts, <<".">>)

\* arr?.[i] for a 0-based i on an optional array: an optional element
ElemAt(arrOpt, i) ==
  IF IsNullish(arrOpt) THEN None
  ELSE IF i + 1 <= Len(Get(arrOpt)) THEN Some(Get(arrOpt)[i + 1]) ELSE None

\* obj?.field on an optional object whose fields are optional
FieldOf(objOpt, f) == IF IsNullish(objOpt) THEN None ELSE Get(objOpt)[f]

\* optimized?.section
SectionOf(opt, f) == FieldOf(opt, f)

EmptyStr == <<>>

\* the five contact keys and skills (the object literal of buildTemplatePayload)
ContactEntries(parsed, opt) ==
  LET contact == Coalesce(SectionOf(opt, "contact"), Some(parsed.contact))
      skills == Coalesce(SectionOf(opt, "skills"), Some(parsed.skills))
  IN << <<Path(<<K_contact, K_name>>), Coalesce(FieldOf(contact, "name"), Some(EmptyStr))>>,
        <<Path(<<K_contact, K_phone>>), Coalesce(FieldOf(contact, "phone"), Some(EmptyStr))>>,
        <<Path(<<K_contact, K_email>>), Coalesce(FieldOf(contact, "email"), Some(EmptyStr))>>,
        <<Path(<<K_contact, K_location>>), Coalesce(FieldOf(contact, "location"), Some(EmptyStr))>>,
        <<Path(<<K_contact, K_linkedin>>), Coalesce(FieldOf(contact, "linkedin"), Some(EmptyStr))>>,
        <<K_skills, Some(Join(Get(Coalesce(skills, Some(parsed.skills))), <<",", " ">>))>> >>

\* one turn of the education loop
EducationEntries(parsed, opt, i) ==
  LET education == Coalesce(SectionOf(opt, "education"), Some(parsed.education))
      e == Coalesce(ElemAt(education, i), ElemAt(Some(parsed.education), i))
      Slot(f, w) == <<Path(<<K_education, NumStr(i), w>>), Coalesce(FieldOf(e, f), Some(EmptyStr))>>
  IN << Slot("school", K_school), Slot("degree", K_degree),
        Slot("dates", K_dates), Slot("gpa", K_gpa) >>

\* bullets[j] ?? "" for j below the cap
BulletSlots(prefix, bullets, cap) ==
  [n \in 1..cap |->
     <<Path(prefix \o <<K_bullet, NumStr(n - 1)>>),
       Coalesce(ElemAt(Some(bullets), n - 1), Some(EmptyStr))>>]

\* one turn of the experience loop
ExperienceEntries(parsed, opt, i) ==
  LET experience == Coalesce(SectionOf(opt, "experience"), Some(parsed.experience))
      o == ElemAt(experience, i)
      orig == ElemAt(Some(parsed.experience), i)
      pre == <<K_experience, NumStr(i)>>
      bullets == Coalesce(FieldOf(o, "bullets"),
                          Coalesce(FieldOf(orig, "bullets"), Some(<<>>)))
  IN << <<Path(pre \o <<K_company>>),
          Coalesce(FieldOf(o, "company"), Coalesce(FieldOf(orig, "company"), Some(EmptyStr)))>>,
        <<Path(pre \o <<K_role>>),
          Coalesce(FieldOf(o, "role"), Coalesce(FieldOf(orig, "role"), Some(EmptyStr)))>>,
        <<Path(pre \o <<K_location>>), Coalesce(FieldOf(orig, "location"), Some(EmptyStr))>>,
        <<Path(pre \o <<K_dates>>), Coalesce(FieldOf(orig, "dates"), Some(EmptyStr))>>,
        <<Path(pre \o <<K_subheader>>),
          Coalesce(FieldOf(o, "subheader"), Coalesce(FieldOf(orig, "subheader"), Some(EmptyStr)))>> >>
     \o BulletSlots(pre, Get(bullets), MAX_EXPERIENCE_BULLETS)

\* faulty variant: an absent project emits no keys
ProjectEntriesSkipAbsent(parsed, opt, i) ==
  LET proj == ElemAt(Some(parsed.projects), i)
      pre == <<K_projects, NumStr(i)>>
  IN IF IsNullish(proj) THEN <<>>
     ELSE << <<Path(pre \o <<K_title>>), Coalesce(FieldOf(proj, "title"), Some(EmptyStr))>> >>
          \o BulletSlots(pre, Get(Coalesce(FieldOf(proj, "bullets"), Some(<<>>))),
                         MAX_PROJECT_BULLETS)

\* one turn of the projects loop
ProjectEntries(parsed, opt, i) ==
  LET proj == ElemAt(Some(parsed.projects), i)
      pre == <<K_projects, NumStr(i)>>
      bullets == Coalesce(FieldOf(proj, "bullets"), Some(<<>>))
  IN << <<Path(pre \o <<K_title>>), Coalesce(FieldOf(proj, "title"), Some(EmptyStr))>> >>
     \o BulletSlots(pre, Get(bullets), MAX_PROJECT_BULLETS)

\* the payload as the sequence of its <<key, value>> entries in insertion order
BuildTemplatePayload(parsed, opt) ==
  ContactEntries(parsed, opt)
  \o FlatConcat([n \in 1..MAX_EDUCATION |-> EducationEntries(parsed, opt, n - 1)])
  \o FlatConcat([n \in 1..MAX_EXPERIENCE |-> ExperienceEntries(parsed, opt, n - 1)])
  \o FlatConcat([n \in 1..MAX_PROJECTS |-> ProjectEntries(parsed, opt, n - 1)])

\* payload[key]: the value of the last entry with that key, None when there is none
PayloadGet(pl, key) ==
  LET idx == { n \in 1..Len(pl) : pl[n][1] = key }
  IN IF idx = {} THEN None
     ELSE pl[CHOOSE n \in idx : \A k \in idx : k <= n][2]

PayloadKeys(pl) == { pl[n][1] : n \in 1..Len(pl) }

---------------------------------------------------------------------------
(* app/api/optimize/route: mergeOptimizedIntoResume *)

\* arr?.length is truthy
HasLength(arrOpt) == ~IsNullish(arrOpt) /\ Len(Get(arrOpt)) > 0

MergeExperience(parsed, o) ==
  IF HasLength(o.experience)
  THEN [n \in 1..Len(Get(o.experience)) |->
          LET e == Get(o.experience)[n]
              orig == ElemAt(Some(parsed.experience), n - 1)
          IN [company |-> e.company,
              role |-> e.role,
              location |-> FieldOf(orig, "location"),
              dates |-> FieldOf(orig, "dates"),
              subheader |-> Coalesce(e.subheader, FieldOf(orig, "subheader")),
              bullets |-> Coalesce(e.bullets, Some(<<>>))]]
  ELSE parsed.experience

MergeProjects(parsed, o) ==
  IF HasLength(o.projects)
  THEN [n \in 1..Len(Get(o.projects)) |->
          LET p == Get(o.projects)[n]
          IN [title |-> Coalesce(p.title, FieldOf(ElemAt(Some(parsed.projects), n - 1), "title")),
              bullets |-> Coalesce(p.bullets, Some(<<>>))]]
  ELSE parsed.projects

MergeOptimizedIntoResume(parsed, o) ==
  [contact |-> Get(Coalesce(o.contact, Some(parsed.contact))),
   education |-> IF HasLength(o.education) THEN Get(o.education) ELSE parsed.education,
   experience |-> MergeExperience(parsed, o),
   projects |-> MergeProjects(parsed, o),
   skills |-> IF HasLength(o.skills) THEN Get(o.skills) ELSE parsed.skills,
   otherSections |-> parsed.otherSections]

---------------------------------------------------------------------------
(* Inputs of the payload builder and of the merge *)

MaxEducationEntries == 3
MaxExperienceEntries == 4
MaxBullets == 5
MaxProjectEntries == 3
MaxOverlayEntries == 2

\* a field value: a tag letter followed by the entry's index
Val(tag, i) == <<tag>> \o NumStr(i)
Val2(tag, i, j) == <<tag>> \o NumStr(i) \o NumStr(j)

\* entry i of the original resume; an entry with an odd index has no
\* subheader (experience), no gpa (education)
ParsedEducation(i) ==
  [school |-> Some(Val("U", i)), degree |-> Some(Val("G", i)),
   dates |-> Some(Val("Y", i)),
   gpa |-> IF i % 2 = 1 THEN None ELSE Some(Val("P", i)),
   rawText |-> Some(Val("X", i))]
ParsedExperience(i, nb) ==
  [company |-> Some(Val("C", i)), role |-> Some(Val("R", i)),
   location |-> Some(Val("L", i)), dates |-> Some(Val("D", i)),
   subheader |-> IF i % 2 = 1 THEN None ELSE Some(Val("S", i)),
   bullets |-> Some([n \in 1..nb |-> Val2("B", i, n - 1)])]
ParsedProject(i, nb) ==
  [title |-> Some(Val("T", i)),
   bullets |-> Some([n \in 1..nb |-> Val2("Q", i, n - 1)])]

ParsedContact == [name |-> Some(<<"N">>), email |-> Some(<<"E">>), phone |-> None,
                  location |-> Some(<<"A">>), linkedin |-> None]

ParsedResume(nEdu, nExp, nProj, nb) ==
  [contact |-> ParsedContact,
   education |-> [n \in 1..nEdu |-> ParsedEducation(n - 1)],
   experience |-> [n \in 1..nExp |-> ParsedExperience(n - 1, nb)],
   projects |-> [n \in 1..nProj |-> ParsedProject(n - 1, nb)],
   skills |-> IF nb = 0 THEN <<>> ELSE <<Val("K", 0), Val("K", 1)>>,
   otherSections |-> None]

OverlayResumes ==
  { ParsedResume(nEdu, nExp, nProj, nb) :
      nEdu \in 0..MaxEducationEntries, nExp \in 0..MaxExperienceEntries,
      nProj \in 0..MaxProjectEntries, nb \in 0..MaxBullets }

\* an OptimizedSections with no section
NoSections == [contact |-> None, education |-> None, experience |-> None,
               projects |-> None, skills |-> None]

\* overlay experience entry i: full, or with only its bullets
OverlayExperience(i, full) ==
  [company |-> IF full THEN Some(Val("c", i)) ELSE None,
   role |-> IF full THEN Some(Val("r", i)) ELSE None,
   subheader |-> IF full THEN Some(Val("s", i)) ELSE None,
   bullets |-> Some(<<Val2("b", i, 0)>>)]
\* overlay project entry i: full, or with neither title nor bullets
OverlayProject(i, full) ==
  [title |-> IF full THEN Some(Val("t", i)) ELSE None,
   bullets |-> IF full THEN Some(<<Val2("q", i, 0)>>) ELSE None]

Overlays ==
  { None, Some(NoSections) }
  \cup { Some([NoSections EXCEPT !.contact = Some(EmptyContact)]),
         Some([NoSections EXCEPT !.education = Some(<<>>)]),
         Some([NoSections EXCEPT !.experience = Some(<<>>)]),
         Some([NoSections EXCEPT !.projects = Some(<<>>)]),
         Some([NoSections EXCEPT !.skills = Some(<<>>)]) }
  \cup { Some([NoSections EXCEPT !.contact = Some([EmptyContact EXCEPT !.name = Some(<<"n">>)])]),
         Some([NoSections EXCEPT !.education =
                 Some(<<[EmptyEducation EXCEPT !.school = Some(<<"u">>)]>>)]),
         Some([NoSections EXCEPT !.skills = Some(<<Val("k", 0)>>)]) }
  \cup { Some([NoSections EXCEPT !.experience =
                 Some([n \in 1..k |-> OverlayExperience(n - 1, full)])])
           : k \in 1..MaxOverlayEntries, full \in BOOLEAN }
  \cup { Some([NoSections EXCEPT !.projects =
                 Some([n \in 1..k |-> OverlayProject(n - 1, full)])])
           : k \in 1..MaxOverlayEntries, full \in BOOLEAN }

---------------------------------------------------------------------------
(* The export's payload and the optimize route's merge on one resume *)

InitOverlay ==
  /\ pc = "ready"
  /\ IdleStore
  /\ resume \in OverlayResumes
  /\ optimized \in Overlays
  /\ jobDescription = <<>>
  /\ keywordList = <<>>
  /\ response = EmptyResponse
  /\ payload = <<>>
  /\ merged = MinimalResume
  /\ docXml = <<>>
  /\ docHistory = <<>>

\* export route: const payload = buildTemplatePayload(data.parsed, data.optimized)
BuildPayload ==
  /\ pc = "ready"
  /\ payload' = BuildTemplatePayload(resume, optimized)
  /\ pc' = "buildTemplatePayload"
  /\ UNCHANGED <<resume, optimized, jobDescription, keywordList, response, merged,
                 docXml, docHistory, rows, log, files>>

\* optimize route: const merged = mergeOptimizedIntoResume(data.parsed, optimized)
Merge ==
  /\ pc = "ready"
  /\ ~IsNullish(optimized)
  /\ merged' = MergeOptimizedIntoResume(resume, Get(optimized))
  /\ pc' = "mergeOptimizedIntoResume"
  /\ UNCHANGED <<resume, optimized, jobDescription, keywordList, response, payload,
                 docXml, docHistory, rows, log, files>>

NextOverlay == BuildPayload \/ Merge

SpecOverlay == InitOverlay /\ [][NextOverlay]_vars

---------------------------------------------------------------------------
(* Claims on the payload builder and the merge *)

\* the length of a section of the overlay, 0 when the overlay or the section is absent
OverlayLen(f) ==
  IF IsNullish(SectionOf(optimized, f)) THEN 0 ELSE Len(Get(SectionOf(optimized, f)))

\* the bullets of entry i (0-based) of a list of entries, <<>> when there is none
BulletsAt(entries, i) ==
  IF i + 1 <= Len(entries) THEN BulletsOf(entries[i + 1]) ELSE <<>>

OverlayEntries(f) ==
  IF IsNullish(SectionOf(optimized, f)) THEN <<>> ELSE Get(SectionOf(optimized, f))

\* the fixed key set: 5 contact keys, skills, education.0..1, experience.0..2
\* with bullet.0..3, projects.0..1 with bullet.0..1
ExpectedKeys ==
  { Path(<<K_contact, w>>) : w \in {K_name, K_phone, K_email, K_location, K_linkedin} }
  \cup { K_skills }
  \cup { Path(<<K_education, NumStr(i), w>>) :
           i \in 0..1, w \in {K_school, K_degree, K_dates, K_gpa} }
  \cup { Path(<<K_experience, NumStr(i), w>>) :
           i \in 0..2, w \in {K_company, K_role, K_location, K_dates, K_subheader} }
  \cup { Path(<<K_experience, NumStr(i), K_bullet, NumStr(j)>>) : i \in 0..2, j \in 0..3 }
  \cup { Path(<<K_projects, NumStr(i), K_title>>) : i \in 0..1 }
  \cup { Path(<<K_projects, NumStr(i), K_bullet, NumStr(j)>>) : i \in 0..1, j \in 0..1 }

\* C6: the payload's key set is exactly the fixed set of capped slots, every
\* value is a string, and a slot beyond the data of the original and of the
\* overlay is the empty string.
C6_PayloadTotal ==
  pc = "buildTemplatePayload" =>
    /\ PayloadKeys(payload) = ExpectedKeys
    /\ Len(payload) = Cardinality(ExpectedKeys)
    /\ \A n \in 1..Len(payload) : ~IsNullish(payload[n][2])
    /\ \A i \in 0..1 :
         (i >= Len(resume.education) /\ i >= OverlayLen("education")) =>
           \A w \in {K_school, K_degree, K_dates, K_gpa} :
             PayloadGet(payload, Path(<<K_education, NumStr(i), w>>)) = Some(EmptyStr)
    /\ \A i \in 0..2 :
         /\ (i >= Len(resume.experience) /\ i >= OverlayLen("experience")) =>
              \A w \in {K_company, K_role, K_location, K_dates, K_subheader} :
                PayloadGet(payload, Path(<<K_experience, NumStr(i), w>>)) = Some(EmptyStr)
         /\ \A j \in 0..3 :
              (/\ j >= Len(BulletsAt(resume.experience, i))
               /\ j >= Len(BulletsAt(OverlayEntries("experience"), i))) =>
                PayloadGet(payload, Path(<<K_experience, NumStr(i), K_bullet, NumStr(j)>>))
                  = Some(EmptyStr)
    /\ \A i \in 0..1 :
         /\ (i >= Len(resume.projects) /\ i >= OverlayLen("projects")) =>
              PayloadGet(payload, Path(<<K_projects, NumStr(i), K_title>>)) = Some(EmptyStr)
         /\ \A j \in 0..1 :
              (/\ j >= Len(BulletsAt(resume.projects, i))
               /\ j >= Len(BulletsAt(OverlayEntries("projects"), i))) =>
                PayloadGet(payload, Path(<<K_projects, NumStr(i), K_bullet, NumStr(j)>>))
                  = Some(EmptyStr)

C6_Witness ==
  /\ pc = "buildTemplatePayload"
  /\ Len(resume.experience) = 4
  /\ Len(BulletsOf(resume.experience[1])) = 5
  /\ Len(resume.education) = 1
  /\ Len(resume.projects) = 0
  /\ OverlayLen("experience") = 2
  /\ PayloadGet(payload, Path(<<K_experience, NumStr(2), K_company>>)) = Some(Val("C", 2))
  /\ PayloadGet(payload, Path(<<K_projects, NumStr(1), K_title>>)) = Some(EmptyStr)

\* C7: an overlay with N experience entries merged into an original with
\* M >= N entries gives exactly M entries in the original order, and every
\* field overlay entry i omits is that of original entry i.
C7_MergeInvariant ==
  (/\ pc = "mergeOptimizedIntoResume"
   /\ ~IsNullish(Get(optimized).experience)
   /\ Len(resume.experience) >= OverlayLen("experience")) =>
    /\ Len(merged.experience) = Len(resume.experience)
    /\ \A n \in 1..OverlayLen("experience") :
         /\ merged.experience[n].location = resume.experience[n].location
         /\ merged.experience[n].dates = resume.experience[n].dates
         /\ \A f \in {"company", "role", "subheader"} :
              IsNullish(OverlayEntries("experience")[n][f]) =>
                merged.experience[n][f] = resume.experience[n][f]
    /\ \A n \in (OverlayLen("experience") + 1)..Len(resume.experience) :
         merged.experience[n] = resume.experience[n]

\* whether section f of the overlay is present but empty
PresentEmpty(f) ==
  /\ ~IsNullish(optimized)
  /\ ~IsNullish(Get(optimized)[f])
  /\ Get(Get(optimized)[f]) = (IF f = "contact" THEN EmptyContact ELSE <<>>)

\* the first segment of a dotted path
KeyHead(key) == Split(key, <<".">>)[1]

SectionWord(f) ==
  CASE f = "contact" -> K_contact [] f = "education" -> K_education
    [] f = "experience" -> K_experience [] f = "projects" -> K_projects
    [] f = "skills" -> K_skills

\* C8: an overlay section that is present but empty leaves that section as in
\* the original, in the merged resume and in the payload's values.
C8_EmptyOverlayKeepsOriginal ==
  \A f \in {"contact", "education", "experience", "projects", "skills"} :
    PresentEmpty(f) =>
      /\ pc = "mergeOptimizedIntoResume" => merged[f] = resume[f]
      /\ pc = "buildTemplatePayload" =>
           \A n \in 1..Len(payload) :
             KeyHead(payload[n][1]) = SectionWord(f) =>
               payload[n][2] = PayloadGet(BuildTemplatePayload(resume, None), payload[n][1])

\* C9: with a non-empty projects section in the overlay, projects.i.title and
\* projects.i.bullet.j come from overlay project i, a field it omits from
\* original project i.
C9_PayloadOverlayProjects ==
  (pc = "buildTemplatePayload" /\ OverlayLen("projects") > 0) =>
    \A i \in 0..(MAX_PROJECTS - 1) :
      LET o == ElemAt(Some(OverlayEntries("projects")), i)
          orig == ElemAt(Some(resume.projects), i)
          bullets == Get(Coalesce(FieldOf(o, "bullets"),
                                  Coalesce(FieldOf(orig, "bullets"), Some(<<>>))))
      IN /\ PayloadGet(payload, Path(<<K_projects, NumStr(i), K_title>>))
              = Coalesce(FieldOf(o, "title"), Coalesce(FieldOf(orig, "title"), Some(EmptyStr)))
         /\ \A j \in 0..(MAX_PROJECT_BULLETS - 1) :
              PayloadGet(payload, Path(<<K_projects, NumStr(i), K_bullet, NumStr(j)>>))
                = Coalesce(ElemAt(Some(bullets), j), Some(EmptyStr))

---------------------------------------------------------------------------
(* lib/template-populate: populateTemplate *)

\* `{{${key}}}`
Placeholder(key) == <<"{", "{">> \o key \o <<"}", "}">>

\* str.split(from).join(to): every occurrence, left to right, not rescanned
ReplaceAll(str, from, to) ==
  IF str = <<>> THEN str ELSE Join(Split(str, from), to)

\* faulty variant: & is escaped last, after the entities were written
EscapeXmlTextAmpLast(s) ==
  LET b == ReplaceAll(s, <<"<">>, <<"&","l","t",";">>)
      c == ReplaceAll(b, <<">">>, <<"&","g","t",";">>)
      d == ReplaceAll(c, <<"\"">>, <<"&","q","u","o","t",";">>)
      e == ReplaceAll(d, <<"'">>, <<"&","a","p","o","s",";">>)
  IN ReplaceAll(e, <<"&">>, <<"&","a","m","p",";">>)

EscapeXmlText(s) ==
  LET a == ReplaceAll(s, <<"&">>, <<"&","a","m","p",";">>)
      b == ReplaceAll(a, <<"<">>, <<"&","l","t",";">>)
      c == ReplaceAll(b, <<">">>, <<"&","g","t",";">>)
      d == ReplaceAll(c, <<"\"">>, <<"&","q","u","o","t",";">>)
  IN ReplaceAll(d, <<"'">>, <<"&","a","p","o","s",";">>)

\* patches[key] = new TextRun(escapeXmlText(value)) as the docx library writes
\* it into the XML: as given, or escaped once more when the library's
\* serialiser escapes the text of a run (`twice`)
PatchText(value, twice) ==
  IF twice THEN EscapeXmlText(EscapeXmlText(value)) ELSE EscapeXmlText(value)

\* the docx library's patchDocument: it replaces the placeholders it can reach
\* (those of the keys in `reached`) by the run of the key's patch
PatchOne(doc, entry, reached, twice) ==
  IF entry[1] \in reached /\ Includes(doc, Placeholder(entry[1]))
  THEN ReplaceAll(doc, Placeholder(entry[1]), PatchText(Get(entry[2]), twice))
  ELSE doc

\* the patches of entries lo..hi, in order
RECURSIVE PatchRange(_, _, _, _, _, _)
PatchRange(doc, entries, lo, hi, reached, twice) ==
  IF lo > hi \/ doc = <<>> THEN doc
  ELSE IF lo = hi THEN PatchOne(doc, entries[lo], reached, twice)
  ELSE PatchRange(PatchRange(doc, entries, lo, (lo + hi) \div 2, reached, twice),
                  entries, (lo + hi) \div 2 + 1, hi, reached, twice)

PatchDocument(doc, entries, reached, twice) ==
  PatchRange(doc, entries, 1, Len(entries), reached, twice)

\* faulty variant: String.prototype.replace with a string pattern, which
\* replaces the first occurrence only
ReplaceFirstOnly(str, from, to) ==
  LET idx == IndexOf(str, from)
  IN IF idx = 0 THEN str
     ELSE SubSeq(str, 1, idx - 1) \o to \o SliceFrom(str, idx + Len(from))

RawOneFirstOnly(doc, entry) ==
  IF Includes(doc, Placeholder(entry[1]))
  THEN ReplaceFirstOnly(doc, Placeholder(entry[1]), EscapeXmlText(Get(entry[2])))
  ELSE doc

RECURSIVE RawRangeFirstOnly(_, _, _, _)
RawRangeFirstOnly(doc, entries, lo, hi) ==
  IF lo > hi \/ doc = <<>> THEN doc
  ELSE IF lo = hi THEN RawOneFirstOnly(doc, entries[lo])
  ELSE RawRangeFirstOnly(RawRangeFirstOnly(doc, entries, lo, (lo + hi) \div 2),
                         entries, (lo + hi) \div 2 + 1, hi)

\* one turn of the fallback loop: if (out.includes(placeholder)) out = ...
RawOne(doc, entry) ==
  IF Includes(doc, Placeholder(entry[1]))
  THEN ReplaceAll(doc, Placeholder(entry[1]), EscapeXmlText(Get(entry[2])))
  ELSE doc

\* the turns of entries lo..hi, in order
RECURSIVE RawRange(_, _, _, _)
RawRange(doc, entries, lo, hi) ==
  IF lo > hi \/ doc = <<>> THEN doc
  ELSE IF lo = hi THEN RawOne(doc, entries[lo])
  ELSE RawRange(RawRange(doc, entries, lo, (lo + hi) \div 2),
                entries, (lo + hi) \div 2 + 1, hi)

RawPassFirstOnly(doc, entries) == RawRangeFirstOnly(doc, entries, 1, Len(entries))

\* the fallback loop over Object.entries(payload)
RawPass(doc, entries) == RawRange(doc, entries, 1, Len(entries))

\* the text of word/document.xml in the buffer populateTemplate returns
PopulateTemplate(template, pl, reached, twice) ==
  RawPass(PatchDocument(template, pl, reached, twice), pl)

---------------------------------------------------------------------------
(* Inputs of the filler *)

MaxTemplatePieces == 3

Key_name == Path(<<K_contact, K_name>>)

\* the keys whose placeholders a template holds
TemplateKeys == { Key_name, K_skills }

\* a plain value, values with XML special characters, and values that hold
\* the text of a placeholder
FillVals == { <<"A">>, <<"R","&","D">>, <<"<","b",">">>,
              Placeholder(K_skills), Placeholder(Key_name) }

FillResumes ==
  { [MinimalResume EXCEPT
       !.contact.name = Some(n),
       !.skills = <<s>>,
       !.projects = << [EmptyProject EXCEPT !.title = Some(<<"T","0">>)],
                       [EmptyProject EXCEPT !.title = Some(<<"T","1">>)] >>]
      : n \in FillVals, s \in FillVals }

TemplatePieces == { Placeholder(k) : k \in TemplateKeys } \cup { <<"x">> }

Templates == { FlatConcat(p) : p \in SeqsUpTo(TemplatePieces, MaxTemplatePieces) }

---------------------------------------------------------------------------
(* The export: build the payload, then populate the template *)

InitFill ==
  /\ pc = "ready"
  /\ IdleStore
  /\ resume \in FillResumes
  /\ optimized = None
  /\ docXml \in Templates
  /\ docHistory = <<>>
  /\ jobDescription = <<>>
  /\ keywordList = <<>>
  /\ response = EmptyResponse
  /\ payload = <<>>
  /\ merged = MinimalResume

\* export route: buffer = await populateTemplate(templateBuffer, payload)
Populate ==
  /\ pc = "buildTemplatePayload"
  /\ \E reached \in SUBSET { k \in TemplateKeys : Includes(docXml, Placeholder(k)) },
        twice \in BOOLEAN :
       /\ docXml' = PopulateTemplate(docXml, payload, reached, twice)
       /\ docHistory' = <<docXml, PatchDocument(docXml, payload, reached, twice)>>
  /\ pc' = "populateTemplate"
  /\ UNCHANGED <<resume, optimized, jobDescription, keywordList, response, payload, merged,
                 rows, log, files>>

NextFill == BuildPayload \/ Populate

SpecFill == InitFill /\ [][NextFill]_vars

\* the XML holds the value as populateTemplate writes it: escaped by
\* escapeXmlText, or as the patched run's text
HoldsValue(doc, value) ==
  \/ Includes(doc, PatchText(value, FALSE))
  \/ Includes(doc, PatchText(value, TRUE))

BraceFree(str) == \A i \in 1..Len(str) : str[i] \notin {"{", "}"}

\* the template with every placeholder of a payload key replaced by a blank
BlankOne(doc, entry) ==
  IF Includes(doc, Placeholder(entry[1]))
  THEN ReplaceAll(doc, Placeholder(entry[1]), <<" ">>)
  ELSE doc

RECURSIVE BlankRange(_, _, _, _)
BlankRange(doc, entries, lo, hi) ==
  IF lo > hi \/ doc = <<>> THEN doc
  ELSE IF lo = hi THEN BlankOne(doc, entries[lo])
  ELSE BlankRange(BlankRange(doc, entries, lo, (lo + hi) \div 2),
                  entries, (lo + hi) \div 2 + 1, hi)

BlankPlaceholders(doc, entries) == BlankRange(doc, entries, 1, Len(entries))

\* no payload value holds a brace, and the template holds none outside the
\* placeholders of the payload's keys
PlainFill(template) ==
  /\ \A n \in 1..Len(payload) : BraceFree(Get(payload[n][2]))
  /\ BraceFree(BlankPlaceholders(template, payload))

---------------------------------------------------------------------------
(* scripts/generate-template: the injector *)

\* if (v) pairs.push([v, `{{key}}`])
PairIf(o, key) ==
  IF Truthy(o) THEN << <<Get(o), Placeholder(key)>> >> ELSE <<>>

\* bullets?.forEach((b, j) => { if (b) pairs.push([b, `{{prefix.bullet.j}}`]) })
BulletPairs(prefix, bulletsOpt) ==
  FlatConcat([n \in 1..Len(Coalesce(bulletsOpt, Some(<<>>))[1]) |->
                PairIf(Some(Get(bulletsOpt)[n]),
                       Path(prefix \o <<K_bullet, NumStr(n - 1)>>))])

ContactPairs(parsed) ==
  PairIf(parsed.contact.name, Path(<<K_contact, K_name>>))
    \o PairIf(parsed.contact.email, Path(<<K_contact, K_email>>))
    \o PairIf(parsed.contact.phone, Path(<<K_contact, K_phone>>))
    \o PairIf(parsed.contact.location, Path(<<K_contact, K_location>>))
    \o PairIf(parsed.contact.linkedin, Path(<<K_contact, K_linkedin>>))

EducationPairs(parsed) ==
  FlatConcat([n \in 1..Len(parsed.education) |->
    LET e == parsed.education[n]
        P(w) == Path(<<K_education, NumStr(n - 1), w>>)
    IN PairIf(e.school, P(K_school)) \o PairIf(e.degree, P(K_degree))
         \o PairIf(e.dates, P(K_dates)) \o PairIf(e.gpa, P(K_gpa))])

ExperiencePairs(parsed) ==
  FlatConcat([n \in 1..Len(parsed.experience) |->
    LET exp == parsed.experience[n]
        P(w) == Path(<<K_experience, NumStr(n - 1), w>>)
    IN PairIf(exp.company, P(K_company)) \o PairIf(exp.location, P(K_location))
         \o PairIf(exp.dates, P(K_dates)) \o PairIf(exp.role, P(K_role))
         \o PairIf(exp.subheader, P(K_subheader))
         \o BulletPairs(<<K_experience, NumStr(n - 1)>>, exp.bullets)])

ProjectPairs(parsed) ==
  FlatConcat([n \in 1..Len(parsed.projects) |->
    LET proj == parsed.projects[n]
    IN PairIf(proj.title, Path(<<K_projects, NumStr(n - 1), K_title>>))
         \o BulletPairs(<<K_projects, NumStr(n - 1)>>, proj.bullets)])

\* parsed.skills?.join(", ")
SkillsPairs(parsed) ==
  PairIf(Some(Join(parsed.skills, <<",", " ">>)), K_skills)

BuildReplacementsInDocumentOrder(parsed) ==
  ContactPairs(parsed) \o EducationPairs(parsed) \o ExperiencePairs(parsed)
    \o ProjectPairs(parsed) \o SkillsPairs(parsed)

\* faulty variant: the placeholder is inserted, the literal is not removed
ReplaceFirstKeepFrom(str, from, to) ==
  LET idx == IndexOf(str, from)
  IN IF idx = 0 THEN str
     ELSE SubSeq(str, 1, idx - 1) \o to \o SliceFrom(str, idx)

\* faulty variant: lastIndexOf instead of indexOf
ReplaceLast(str, from, to) ==
  LET occ == { i \in 1..Len(str) : MatchAt(str, i, from) }
  IN IF occ = {} THEN str
     ELSE LET idx == CHOOSE i \in occ : \A j \in occ : j <= i
          IN SubSeq(str, 1, idx - 1) \o to \o SliceFrom(str, idx + Len(from))

\* replaceFirst: str.slice(0, idx) + to + str.slice(idx + from.length)
ReplaceFirst(str, from, to) ==
  LET idx == IndexOf(str, from)
  IN IF idx = 0 THEN str
     ELSE SubSeq(str, 1, idx - 1) \o to \o SliceFrom(str, idx + Len(from))

\* main: for (const [from, to] of replacements) docXml = replaceFirst(docXml, from, to)
RECURSIVE ApplyReplacements(_, _)
ApplyReplacements(doc, pairs) ==
  IF pairs = <<>> THEN doc
  ELSE IF Head(pairs)[1] = <<>> \/ ~Includes(doc, Head(pairs)[1])
  THEN ApplyReplacements(doc, Tail(pairs))
  ELSE ApplyReplacements(ReplaceFirst(doc, Head(pairs)[1], Head(pairs)[2]),
                         Tail(pairs))


---------------------------------------------------------------------------
(* Inputs of the injector *)

MaxDocPieces == 2
MaxRuns == 2

W_A == <<"A">>
W_B == <<"B">>
W_na == <<"n","a">>
W_close == <<"}">>

InjectNames == { None, Some(W_na), Some(W_close) }
InjectEmails == { Some(W_B), Some(EmptyStr) }
InjectExperience ==
  { <<>>,
    << [EmptyExperience EXCEPT !.company = Some(W_A),
                               !.bullets = Some(<<EmptyStr, W_B>>)] >> }
InjectSkills == { <<>>, <<W_B, W_A>> }

InjectResumes ==
  { [MinimalResume EXCEPT !.contact.name = n, !.contact.email = e,
                          !.experience = x, !.skills = k]
      : n \in InjectNames, e \in InjectEmails,
        x \in InjectExperience, k \in InjectSkills }

DocPieces == { W_A, W_B, W_na, W_close, <<"B",","," ","A">> }

\* the text of word/document.xml of the source resume
InjectDocs == { FlatConcat(ps) : ps \in SeqsUpTo(DocPieces, MaxDocPieces) }

InitInject ==
  /\ pc = "ready"
  /\ IdleStore
  /\ resume \in InjectResumes
  /\ docXml \in InjectDocs
  /\ docHistory = <<docXml>>
  /\ optimized = None
  /\ jobDescription = <<>>
  /\ keywordList = <<>>
  /\ response = EmptyResponse
  /\ payload = <<>>
  /\ merged = MinimalResume

\* one run of the replacement pass of main over the current document
GenerateTemplate ==
  /\ Len(docHistory) <= MaxRuns
  /\ docXml' = ApplyReplacements(docXml, BuildReplacementsInDocumentOrder(resume))
  /\ docHistory' = Append(docHistory, docXml')
  /\ pc' = "generateTemplate"
  /\ UNCHANGED <<resume, optimized, jobDescription, keywordList, response, payload, merged,
                 rows, log, files>>

NextInject == GenerateTemplate

SpecInject == InitInject /\ [][NextInject]_vars

\* C10 as stated: a second run of the pass, with the same pairs, over the
\* document the first run produced changes nothing.
C10_SecondRunNoOp ==
  Len(docHistory) >= 3 => docHistory[3] = docHistory[2]

\* the number of places where `from` occurs in str, overlapping ones included
CountOccurrences(str, from) ==
  Cardinality({ i \in 1..Len(str) : MatchAt(str, i, from) })

\* each literal occurs at most once in the source document, holds no brace,
\* and occurs in no placeholder of the pairs
SingleLiterals(doc, pairs) ==
  \A n \in 1..Len(pairs) :
    /\ CountOccurrences(doc, pairs[n][1]) <= 1
    /\ BraceFree(pairs[n][1])
    /\ \A m \in 1..Len(pairs) : ~Includes(pairs[m][2], pairs[n][1])

\* C10 (amended): when each literal of the pairs occurs at most once in the
\* source document, holds no brace and occurs in no placeholder of the pairs,
\* every run of the pass after the first leaves the document unchanged.
C10_SecondRunNoOpSingle ==
  SingleLiterals(docHistory[1], BuildReplacementsInDocumentOrder(resume)) =>
    \A k \in 2..Len(docHistory) - 1 : docHistory[k + 1] = docHistory[k]

C10_Witness ==
  /\ SingleLiterals(docHistory[1], BuildReplacementsInDocumentOrder(resume))
  /\ Len(BuildReplacementsInDocumentOrder(resume)) >= 3
  /\ Len(docHistory) = 3
  /\ docHistory[2] # docHistory[1]
  /\ docHistory[3] = docHistory[2]
  /\ Includes(docHistory[2], Placeholder(Path(<<K_contact, K_email>>)))
  /\ Includes(docHistory[2], Placeholder(Path(<<K_experience, NumStr(0), K_company>>)))


\* the document after the first n pairs of a run that starts from doc
AfterPairs(doc, pairs, n) == ApplyReplacements(doc, SubSeq(pairs, 1, n))

\* the places where `from` occurs in str
Occurrences(str, from) == { i \in 1..Len(str) : MatchAt(str, i, from) }

\* d2 is d1 with the occurrence of `from` at idx, and nothing else, replaced by `to`
ReplacedAt(d1, d2, idx, from, to) ==
  /\ Len(d2) = Len(d1) - Len(from) + Len(to)
  /\ \A i \in 1..(idx - 1) : d2[i] = d1[i]
  /\ \A i \in 1..Len(to) : d2[idx - 1 + i] = to[i]
  /\ \A i \in (idx + Len(from))..Len(d1) : d2[i - Len(from) + Len(to)] = d1[i]

\* the optional string fields of the resume, in any order
InjectFields(parsed) ==
  { parsed.contact[f] : f \in {"name", "email", "phone", "location", "linkedin"} }
    \cup UNION { { parsed.education[n][f] : f \in {"school", "degree", "dates", "gpa"} }
                   : n \in 1..Len(parsed.education) }
    \cup UNION { { parsed.experience[n][f]
                     : f \in {"company", "location", "dates", "role", "subheader"} }
                   \cup { Some(b) : b \in Range(BulletsOf(parsed.experience[n])) }
                   : n \in 1..Len(parsed.experience) }
    \cup UNION { { parsed.projects[n].title }
                   \cup { Some(b) : b \in Range(BulletsOf(parsed.projects[n])) }
                   : n \in 1..Len(parsed.projects) }

\* C11: in a run of the pass, each pair in list order replaces the leftmost
\* occurrence of its literal in the current text and nothing else, a pair
\* whose literal does not occur leaves the text as it is, and no pair has an
\* empty literal or a literal that is not a non-empty field of the resume.
C11_InjectorStep ==
  LET pairs == BuildReplacementsInDocumentOrder(resume)
  IN /\ \A n \in 1..Len(pairs) :
          /\ pairs[n][1] # <<>>
          /\ \/ Some(pairs[n][1]) \in InjectFields(resume)
             \/ pairs[n][2] = Placeholder(K_skills)
     /\ \A k \in 1..(Len(docHistory) - 1) :
          /\ docHistory[k + 1] = AfterPairs(docHistory[k], pairs, Len(pairs))
          /\ \A n \in 1..Len(pairs) :
               LET d1 == AfterPairs(docHistory[k], pairs, n - 1)
                   d2 == AfterPairs(docHistory[k], pairs, n)
                   occ == Occurrences(d1, pairs[n][1])
               IN IF occ = {} THEN d2 = d1
                  ELSE \E idx \in occ :
                         /\ \A j \in occ : idx <= j
                         /\ ReplacedAt(d1, d2, idx, pairs[n][1], pairs[n][2])

C11_Witness ==
  /\ Len(docHistory) = 2
  /\ resume.contact.email = Some(EmptyStr)
  /\ resume.contact.name = Some(W_na)
  /\ Len(BuildReplacementsInDocumentOrder(resume)) = 3
  /\ docHistory[1] = W_A \o W_A
  /\ docHistory[2] = Placeholder(Path(<<K_experience, NumStr(0), K_company>>))
                       \o W_A


---------------------------------------------------------------------------
(* The raw pass of populateTemplate, taken alone: docHistory[2] is the
   document.xml it reads, docXml the one it leaves *)

\* the entity of one character of text
EntityOf(c) ==
  CASE c = "&" -> <<"&","a","m","p",";">>
    [] c = "<" -> <<"&","l","t",";">>
    [] c = ">" -> <<"&","g","t",";">>
    [] c = "\"" -> <<"&","q","u","o","t",";">>
    [] c = "'" -> <<"&","a","p","o","s",";">>
    [] OTHER -> <<c>>

XmlEscaped(str) == FlatConcat([i \in 1..Len(str) |-> EntityOf(str[i])])

\* doc from position i on, with each placeholder of a payload key replaced
\* by the key's escaped value and every other character kept
RECURSIVE FilledFrom(_, _, _)
FilledFrom(doc, entries, i) ==
  IF i > Len(doc) THEN <<>>
  ELSE LET hits == { n \in 1..Len(entries) :
                       MatchAt(doc, i, Placeholder(entries[n][1])) }
       IN IF hits = {} THEN <<doc[i]>> \o FilledFrom(doc, entries, i + 1)
          ELSE LET n == CHOOSE n \in hits : TRUE
               IN XmlEscaped(Get(entries[n][2]))
                    \o FilledFrom(doc, entries, i + Len(Placeholder(entries[n][1])))

HoldsPlaceholder(doc, entries) ==
  \E n \in 1..Len(entries) : Includes(doc, Placeholder(entries[n][1]))

\* C12 as stated: the raw pass replaces every `{{k}}` of a payload key by the
\* key's XML-escaped value and keeps all other text; a document with no
\* placeholder is left as it is.
C12_RawPassFills ==
  pc = "populateTemplate" =>
    /\ docXml = FilledFrom(docHistory[2], payload, 1)
    /\ ~HoldsPlaceholder(docHistory[2], payload) => docXml = docHistory[2]

\* C12 (amended): the same, when no payload value holds a brace and the
\* document holds none outside the placeholders of the payload's keys.
C12_RawPassFillsPlain ==
  (pc = "populateTemplate" /\ PlainFill(docHistory[2])) =>
    /\ docXml = FilledFrom(docHistory[2], payload, 1)
    /\ ~HoldsPlaceholder(docHistory[2], payload) => docXml = docHistory[2]

C12_Witness ==
  /\ pc = "populateTemplate"
  /\ PlainFill(docHistory[2])
  /\ PayloadGet(payload, K_skills) = Some(<<"<","b",">">>)
  /\ PayloadGet(payload, Key_name) = Some(<<"R","&","D">>)
  /\ docHistory[2] = Placeholder(K_skills) \o <<"x">> \o Placeholder(K_skills)
  /\ docXml = <<"&","l","t",";","b","&","g","t",";","x","&","l","t",";","b","&","g","t",";">>


---------------------------------------------------------------------------
(* lib/db: the resumes table, and the upload request *)

DEFAULT_RESUME_ID == <<"d","e","f","a","u","l","t">>

\* the least number of digits of a phone that is used as an id
MIN_PHONE_DIGITS == 10

\* a JavaScript value handed in as a phone: its typeof and its text
JsUndefined == [type |-> "undefined", val |-> <<>>]
JsString(str) == [type |-> "string", val |-> str]
JsNumber(str) == [type |-> "number", val |-> str]

\* phone.replace(/\D/g, "")
RemoveNonDigits(str) == SelectSeq(str, LAMBDA c : c \in DigitSet)

\* faulty variant: more than ten digits are asked for
ResumeIdFromPhoneStrict(phone) ==
  IF phone.type # "string" \/ phone.val = <<>> THEN DEFAULT_RESUME_ID
  ELSE LET digits == RemoveNonDigits(phone.val)
       IN IF Len(digits) > MIN_PHONE_DIGITS THEN digits ELSE DEFAULT_RESUME_ID

ResumeIdFromPhone(phone) ==
  IF phone.type # "string" \/ phone.val = <<>> THEN DEFAULT_RESUME_ID
  ELSE LET digits == RemoveNonDigits(phone.val)
       IN IF Len(digits) >= MIN_PHONE_DIGITS THEN digits ELSE DEFAULT_RESUME_ID

\* saveResume: INSERT ... ON CONFLICT (id) DO UPDATE SET file_path, parsed_json
SaveResume(table, id, parsed, filePath) ==
  [i \in DOMAIN table \cup {id} |->
     IF i # id THEN table[i]
     ELSE IF id \in DOMAIN table
          THEN [table[id] EXCEPT !.file_path = filePath, !.parsed_json = parsed]
          ELSE [file_path |-> filePath, parsed_json |-> parsed,
                optimized_json |-> None]]


---------------------------------------------------------------------------
(* Inputs of the upload *)

MaxRequests == 2

W_555 == <<"5","5","5">>
W_123 == <<"1","2","3">>
W_4567 == <<"4","5","6","7">>
W_dash == <<"-">>

\* phones as the parser, or any caller, may hand them in
UploadPhones ==
  { JsUndefined,
    JsNumber(W_555 \o W_123 \o W_4567),
    JsString(<<>>),
    JsString(W_555 \o W_123 \o W_4567),
    JsString(W_555 \o W_dash \o W_123 \o W_dash \o W_4567),
    JsString(<<"(">> \o W_555 \o <<")"," ">> \o W_123 \o <<" ">> \o W_4567),
    JsString(<<"+","1"," ">> \o W_555 \o W_123 \o W_4567),
    JsString(W_555 \o W_dash \o W_123 \o W_dash \o W_123),
    JsString(<<"n","/","a">>) }

\* the parsed resume of an uploaded file: told apart by the name, with the
\* phone when it is a string
UploadParsed(name, phone) ==
  [MinimalResume EXCEPT !.contact.name = Some(name),
                        !.contact.phone = IF phone.type = "string"
                                          THEN Some(phone.val) ELSE None]

UploadNames == { <<"N">>, <<"M">> }

InitStore ==
  /\ pc = "ready"
  /\ IdleStore
  /\ resume = MinimalResume
  /\ optimized = None
  /\ jobDescription = <<>>
  /\ keywordList = <<>>
  /\ response = EmptyResponse
  /\ payload = <<>>
  /\ merged = MinimalResume
  /\ docXml = <<>>
  /\ docHistory = <<>>

\* POST /api/upload with a .docx file: parse, derive the id, save
Upload ==
  /\ Len(log) < MaxRequests
  /\ \E name \in UploadNames, phone \in UploadPhones :
       LET parsed == UploadParsed(name, phone)
           resumeId == ResumeIdFromPhone(phone)
           filePath == Len(log) + 1
       IN /\ rows' = SaveResume(rows, resumeId, parsed, filePath)
          /\ resume' = parsed
          /\ log' = Append(log, [op |-> "upload", phone |-> phone,
                                 status |-> 200, resumeId |-> resumeId,
                                 parsed |-> parsed, filePath |-> filePath])
  /\ pc' = "upload"
  /\ UNCHANGED <<optimized, jobDescription, keywordList, response, payload,
                 merged, docXml, docHistory, files>>

NextStore == Upload

SpecStore == InitStore /\ [][NextStore]_vars

\* the digits of a text, in order
DigitsOf(str) ==
  FlatConcat([i \in 1..Len(str) |->
    IF str[i] \in {"0","1","2","3","4","5","6","7","8","9"} THEN <<str[i]>> ELSE <<>>])

Uploads == { n \in 1..Len(log) : log[n].op = "upload" }

\* C13: the id of an upload is the digit string of its phone when the phone
\* is a string with at least 10 digits, and "default" otherwise; uploads whose
\* phones have the same digits get the same id, and the row of an id holds the
\* resume of the latest upload with that id.
C13_ResumeId ==
  /\ \A n \in Uploads :
       log[n].resumeId =
         IF log[n].phone.type = "string" /\ Len(DigitsOf(log[n].phone.val)) >= 10
         THEN DigitsOf(log[n].phone.val)
         ELSE <<"d","e","f","a","u","l","t">>
  /\ \A n, m \in Uploads :
       (/\ log[n].phone.type = "string" /\ log[m].phone.type = "string"
        /\ DigitsOf(log[n].phone.val) = DigitsOf(log[m].phone.val))
         => log[n].resumeId = log[m].resumeId
  /\ DOMAIN rows = { log[n].resumeId : n \in Uploads }
  /\ \A n \in Uploads :
       (\A m \in Uploads : m > n => log[m].resumeId # log[n].resumeId)
         => /\ rows[log[n].resumeId].parsed_json = log[n].parsed
            /\ rows[log[n].resumeId].file_path = log[n].filePath

C13_Witness ==
  /\ Len(log) = 2
  /\ log[1].phone = JsString(W_555 \o W_dash \o W_123 \o W_dash \o W_4567)
  /\ log[2].phone = JsString(<<"(">> \o W_555 \o <<")"," ">> \o W_123 \o <<" ">> \o W_4567)
  /\ log[1].parsed # log[2].parsed
  /\ DOMAIN rows = { W_555 \o W_123 \o W_4567 }
  /\ rows[W_555 \o W_123 \o W_4567].parsed_json = log[2].parsed


---------------------------------------------------------------------------
(* lib/docx-export: buildResumeDocx, as the texts of its paragraphs *)

UpperChar(c) ==
  IF c \in LowerSet THEN UPPER[CHOOSE i \in 1..26 : LOWER[i] = c] ELSE c

\* String.prototype.toUpperCase
ToUpperCase(str) == [i \in 1..Len(str) |-> UpperChar(str[i])]

T_Resume == <<"R","e","s","u","m","e">>
T_EDUCATION == <<"E","D","U","C","A","T","I","O","N">>
T_EXPERIENCE == <<"P","R","O","F","E","S","S","I","O","N","A","L"," ","E","X","P","E","R","I","E","N","C","E">>
T_PROJECTS == <<"P","R","O","J","E","C","T","S"," ","&"," ","O","U","T","S","I","D","E"," ","E","X","P","E","R","I","E","N","C","E">>
T_SKILLS == <<"S","K","I","L","L","S">>
SEP_BAR == <<" "," ","|"," "," ">>
\* one character each: U+2013 (en dash) and U+2022 (bullet)
EN_DASH == "u2013"
BULLET_CHAR == "u2022"
SEP_DASH == <<" ", EN_DASH, " ">>
BULLET == <<BULLET_CHAR, " ">>

\* [a, b, ...].filter(Boolean).join(sep) on optional strings
JoinTruthy(opts, sep) == Join(FilterBoolean(opts), sep)

\* if (text) children.push(paragraph)
ParaIf(text) == IF text = <<>> THEN <<>> ELSE <<text>>

BulletParas(bulletsOpt) ==
  [n \in 1..Len(Coalesce(bulletsOpt, Some(<<>>))[1]) |-> BULLET \o Get(bulletsOpt)[n]]

EducationParas(e) ==
  LET line == Get(Coalesce(e.rawText,
                Some(JoinTruthy(<<e.school, e.degree, e.dates, e.gpa>>, SEP_DASH))))
  IN ParaIf(line)
       \o (IF Truthy(e.dates) /\ ~Truthy(e.rawText) THEN <<Get(e.dates)>> ELSE <<>>)

ExperienceParas(exp) ==
  ParaIf(JoinTruthy(<<exp.company, exp.location, exp.dates>>, SEP_BAR))
    \o ParaIf(JoinTruthy(<<exp.role, exp.subheader>>, SEP_BAR))
    \o BulletParas(exp.bullets) \o <<EmptyStr>>

ProjectParas(proj) ==
  (IF Truthy(proj.title) THEN <<Get(proj.title)>> ELSE <<>>)
    \o BulletParas(proj.bullets) \o <<EmptyStr>>

\* the experience of buildResumeDocx: the overlay's entries over the parsed ones
DocxExperience(parsed, opt) ==
  IF HasLength(SectionOf(opt, "experience"))
  THEN [n \in 1..Len(Get(SectionOf(opt, "experience"))) |->
          LET e == Get(SectionOf(opt, "experience"))[n]
              orig == ElemAt(Some(parsed.experience), n - 1)
          IN [company |-> e.company,
              role |-> e.role,
              location |-> FieldOf(orig, "location"),
              dates |-> FieldOf(orig, "dates"),
              subheader |-> Coalesce(e.subheader, FieldOf(orig, "subheader")),
              bullets |-> Coalesce(e.bullets, Some(<<>>))]]
  ELSE parsed.experience

BuildResumeDocx(parsed, opt) ==
  LET education == Get(Coalesce(SectionOf(opt, "education"), Some(parsed.education)))
      skills == Get(Coalesce(SectionOf(opt, "skills"), Some(parsed.skills)))
      contact == Get(Coalesce(SectionOf(opt, "contact"), Some(parsed.contact)))
      experience == DocxExperience(parsed, opt)
  IN << ToUpperCase(Get(Coalesce(contact.name, Some(T_Resume)))) >>
       \o ParaIf(JoinTruthy(<<contact.phone, contact.email, contact.location,
                              contact.linkedin>>, SEP_BAR))
       \o (IF Len(education) > 0
           THEN <<T_EDUCATION>> \o FlatConcat([n \in 1..Len(education) |->
                                                 EducationParas(education[n])])
           ELSE <<>>)
       \o (IF Len(experience) > 0
           THEN <<T_EXPERIENCE>> \o FlatConcat([n \in 1..Len(experience) |->
                                                  ExperienceParas(experience[n])])
           ELSE <<>>)
       \o (IF Len(parsed.projects) > 0
           THEN <<T_PROJECTS>> \o FlatConcat([n \in 1..Len(parsed.projects) |->
                                                ProjectParas(parsed.projects[n])])
           ELSE <<>>)
       \o (IF Len(skills) > 0 THEN <<T_SKILLS, Join(skills, <<",", " ">>)>> ELSE <<>>)


---------------------------------------------------------------------------
(* The .docx package: a zip whose entry word/document.xml holds the text *)

\* a readable zip with the entry, a readable zip without it, not a zip
Package(text) == [zip |-> TRUE, entry |-> Some(text)]
PackageNoEntry == [zip |-> TRUE, entry |-> None]
NotAPackage == [zip |-> FALSE, entry |-> None]

\* the outcome of a call: it threw, or it returned a value
Threw == [threw |-> TRUE, value |-> None]
Returned(v) == [threw |-> FALSE, value |-> Some(v)]

\* populateTemplate on a package. patchDocument rejects what is not a zip; for
\* a zip without word/document.xml it throws or returns the package
\* (`libThrows`), and the fallback pass skips the missing entry (if (docEntry)).
PopulatePackage(pkg, pl, reached, twice, libThrows) ==
  IF ~pkg.zip THEN Threw
  ELSE IF IsNullish(pkg.entry)
  THEN IF libThrows THEN Threw ELSE Returned(pkg)
  ELSE Returned(Package(PopulateTemplate(Get(pkg.entry), pl, reached, twice)))

\* getResume: the row of the id, with optimized when optimized_json is set
GetResume(table, id) ==
  IF id \notin DOMAIN table THEN None
  ELSE Some([parsed |-> table[id].parsed_json, filePath |-> table[id].file_path,
             optimized |-> table[id].optimized_json])

\* a stored optimized resume read as OptimizedSections: every section present
AsSections(optOpt) ==
  IF IsNullish(optOpt) THEN None
  ELSE Some([contact |-> Some(Get(optOpt).contact),
             education |-> Some(Get(optOpt).education),
             experience |-> Some(Get(optOpt).experience),
             projects |-> Some(Get(optOpt).projects),
             skills |-> Some(Get(optOpt).skills)])


\* fs.writeFile(path, buffer)
WriteFile(fs, name, pkg) ==
  [n \in DOMAIN fs \cup {name} |-> IF n = name THEN pkg ELSE fs[n]]

\* main of generate-template on the files: the new files, or a throw
\* (readFile of a missing source, JSZip.loadAsync of what is not a zip,
\* "word/document.xml not found in docx")
GeneratorMain(fs, parsed) ==
  IF "source" \notin DOMAIN fs THEN Threw
  ELSE IF ~fs["source"].zip THEN Threw
  ELSE IF IsNullish(fs["source"].entry) THEN Threw
  ELSE Returned(WriteFile(fs, "template",
         Package(ApplyReplacements(Get(fs["source"].entry),
                                   BuildReplacementsInDocumentOrder(parsed)))))

\* the try block of GET /api/export, and its catch: the body of the response
ExportBody(fs, data, reached, twice, libThrows) ==
  LET opt == AsSections(data.optimized)
      filled == IF "template" \notin DOMAIN fs THEN Threw
                ELSE PopulatePackage(fs["template"],
                                     BuildTemplatePayload(data.parsed, opt),
                                     reached, twice, libThrows)
  IN IF filled.threw
     THEN [kind |-> "generated", package |-> None,
           paras |-> BuildResumeDocx(data.parsed, opt)]
     ELSE [kind |-> "template", package |-> filled.value, paras |-> <<>>]

---------------------------------------------------------------------------
(* Inputs of the export and of the generator run on files *)

PackageResumes ==
  { r \in InjectResumes : /\ r.contact.name = Some(W_na)
                           /\ r.contact.email = Some(W_B)
                           /\ r.skills = <<>> }

\* the source resume file: not a zip, without the entry, or with a text
SourceFiles ==
  { NotAPackage, PackageNoEntry, Package(W_A \o W_B), Package(W_na \o W_A) }

TemplateFiles ==
  { NotAPackage, PackageNoEntry } \cup { Package(t) : t \in Templates }

\* a stored optimized resume: the parsed one with other skills
StoredOptimized(parsed) == [parsed EXCEPT !.skills = <<W_A, W_B>>]

InitPackage ==
  /\ pc = "ready"
  /\ resume \in PackageResumes
  /\ \E withOptimized \in BOOLEAN :
       rows = [id \in {DEFAULT_RESUME_ID} |->
                 [file_path |-> 1, parsed_json |-> resume,
                  optimized_json |-> IF withOptimized
                                     THEN Some(StoredOptimized(resume)) ELSE None]]
  /\ \E src \in SourceFiles :
       \/ files = [n \in {"source"} |-> src]
       \/ \E tpl \in TemplateFiles :
            files = [n \in {"source", "template"} |->
                       IF n = "source" THEN src ELSE tpl]
  /\ log = <<>>
  /\ optimized = None
  /\ jobDescription = <<>>
  /\ keywordList = <<>>
  /\ response = EmptyResponse
  /\ payload = <<>>
  /\ merged = MinimalResume
  /\ docXml = <<>>
  /\ docHistory = <<>>

\* a run of scripts/generate-template: main().catch(... process.exit(1))
RunGenerator ==
  /\ pc = "ready"
  /\ LET run == GeneratorMain(files, resume)
     IN /\ files' = IF run.threw THEN files ELSE Get(run.value)
        /\ log' = Append(log, [op |-> "generate", id |-> <<>>,
                               status |-> IF run.threw THEN 1 ELSE 0,
                               body |-> None])
  /\ pc' = "generateTemplate"
  /\ UNCHANGED <<resume, optimized, jobDescription, keywordList, response,
                 payload, merged, docXml, docHistory, rows>>

ExportIds == { DEFAULT_RESUME_ID, W_555 \o W_123 \o W_4567 }

\* GET /api/export?resumeId=id
Export ==
  /\ pc \in {"ready", "generateTemplate"}
  /\ \E id \in ExportIds, reached \in SUBSET TemplateKeys,
        twice \in BOOLEAN, libThrows \in BOOLEAN :
       LET data == GetResume(rows, id)
       IN log' = Append(log,
            IF IsNullish(data)
            THEN [op |-> "export", id |-> id, status |-> 404, body |-> None]
            ELSE [op |-> "export", id |-> id, status |-> 200,
                  body |-> Some(ExportBody(files, Get(data), reached, twice, libThrows))])
  /\ pc' = "export"
  /\ UNCHANGED <<resume, optimized, jobDescription, keywordList, response,
                 payload, merged, docXml, docHistory, rows, files>>

NextPackage == RunGenerator \/ Export

SpecPackage == InitPackage /\ [][NextPackage]_vars


Exports == { n \in 1..Len(log) : log[n].op = "export" }

\* the template file cannot be read, or the package or its entry cannot be
\* populated
TemplateUnavailable ==
  \/ "template" \notin DOMAIN files
  \/ ~files["template"].zip
  \/ IsNullish(files["template"].entry)

\* C14: an export of a stored resume returns a document, and a freshly
\* generated one whenever the template file cannot be read or the package or
\* its entry cannot be populated.
C14_ExportFallback ==
  \A n \in Exports :
    log[n].id \in DOMAIN rows =>
      /\ log[n].status = 200
      /\ ~IsNullish(log[n].body)
      /\ TemplateUnavailable => Get(log[n].body).kind = "generated"

\* C15: on a package without word/document.xml the generator ends with an
\* error and writes no output file, and the filler returns no document (the
\* export's document is then not the filler's).
C15_MalformedPackage ==
  /\ \A n \in 1..Len(log) :
       (/\ log[n].op = "generate"
        /\ "source" \in DOMAIN files /\ files["source"] = PackageNoEntry)
         => /\ log[n].status = 1
            /\ "template" \in DOMAIN files => files["template"] \in TemplateFiles
  /\ \A n \in Exports :
       (/\ log[n].id \in DOMAIN rows
        /\ "template" \in DOMAIN files /\ files["template"] = PackageNoEntry)
         => Get(log[n].body).kind # "template"


---------------------------------------------------------------------------
(* lib/llm: the two calls of the language model, given the reply *)

\* the texts a reply may hold
R_blank == <<" ", " ">>
R_notJson == <<"o","o","p","s">>
R_object == <<" ","{","}"," ">>
R_sections == <<"{","\"","o","p","t","i","m","i","z","e","d","S","e","c","t","i","o","n","s","\"",":","{","\"","s","k","i","l","l","s","\"",":","[","\"","A","\"",",","\"","B","\"","]","}","}">>
R_keywords == <<"{","\"","k","e","y","w","o","r","d","s","\"",":","[","\"","G","o","\"","]","}">>
R_keywordsText == <<"{","\"","k","e","y","w","o","r","d","s","\"",":","\"","G","o","\"","}">>

\* the value of a JSON object: its optimizedSections and keywords members
JsonObject(sections, keywords, isArray) ==
  [optimizedSections |-> sections, keywords |-> keywords, keywordsIsArray |-> isArray]

\* JSON.parse on the texts above; any other text is not JSON
JsonParse(text) ==
  CASE text = <<"{","}">> -> Returned(JsonObject(None, <<>>, FALSE))
    [] text = R_sections ->
         Returned(JsonObject(Some([NoSections EXCEPT !.skills = Some(<<W_A, W_B>>)]),
                             <<>>, FALSE))
    [] text = R_keywords -> Returned(JsonObject(None, <<W_Go>>, TRUE))
    [] text = R_keywordsText -> Returned(JsonObject(None, W_Go, FALSE))
    [] OTHER -> Threw

\* openai.chat.completions.create: it throws, or returns a completion whose
\* choices[0]?.message?.content is absent or a text
ReplyThrows == [threw |-> TRUE, content |-> None]
ReplyContent(c) == [threw |-> FALSE, content |-> c]

\* completion.choices[0]?.message?.content?.trim()
RawOf(reply) ==
  IF IsNullish(reply.content) THEN None ELSE Some(Trim(Get(reply.content)))

\* faulty variant: a body that is not JSON gives an empty result
OptimizeResumeWithLLMLenient(reply) ==
  IF reply.threw THEN Threw
  ELSE IF ~Truthy(RawOf(reply)) THEN Threw
  ELSE LET parsed == JsonParse(Get(RawOf(reply)))
       IN IF parsed.threw
          THEN Returned([optimizedSections |-> NoSections, fullText |-> Get(RawOf(reply))])
          ELSE Returned([optimizedSections |->
                           Get(Coalesce(Get(parsed.value).optimizedSections,
                                        Some(NoSections))),
                         fullText |-> Get(RawOf(reply))])

\* optimizeResumeWithLLM after the call: throw new Error("Empty LLM response"),
\* JSON.parse(raw), parsed.optimizedSections ?? {}
OptimizeResumeWithLLM(reply) ==
  IF reply.threw THEN Threw
  ELSE IF ~Truthy(RawOf(reply)) THEN Threw
  ELSE LET parsed == JsonParse(Get(RawOf(reply)))
       IN IF parsed.threw THEN Threw
          ELSE Returned([optimizedSections |->
                           Get(Coalesce(Get(parsed.value).optimizedSections,
                                        Some(NoSections))),
                         fullText |-> Get(RawOf(reply))])

\* extractKeywordsWithLLM after the call: if (!raw) return [];
\* Array.isArray(parsed.keywords) ? parsed.keywords : []
ExtractKeywordsWithLLM(reply) ==
  IF reply.threw THEN Threw
  ELSE IF ~Truthy(RawOf(reply)) THEN Returned(<<>>)
  ELSE LET parsed == JsonParse(Get(RawOf(reply)))
       IN IF parsed.threw THEN Threw
          ELSE Returned(IF Get(parsed.value).keywordsIsArray
                        THEN Get(parsed.value).keywords ELSE <<>>)

\* saveOptimized: UPDATE resumes SET optimized_json = ? WHERE id = ?
SaveOptimized(table, id, optimizedResume) ==
  [i \in DOMAIN table |->
     IF i = id THEN [table[i] EXCEPT !.optimized_json = Some(optimizedResume)]
     ELSE table[i]]


---------------------------------------------------------------------------
(* POST /api/optimize and POST /api/analyze *)

\* an entry of the log: a call of the model, or the response of a request
LlmCall(reply) ==
  [op |-> "llm", id |-> <<>>, status |-> 0, body |-> None, reply |-> reply]
Response(op, id, status, body, reply) ==
  [op |-> op, id |-> id, status |-> status, body |-> body, reply |-> reply]

\* POST /api/optimize: the new table and the entries the request adds to the log
OptimizePost(table, id, jd, configured, reply) ==
  LET data == GetResume(table, id)
      result == OptimizeResumeWithLLM(reply)
      mergedResume == MergeOptimizedIntoResume(Get(data).parsed,
                                               Get(result.value).optimizedSections)
      Reply(status, body) == Response("optimize", id, status, body, reply)
  IN IF ~configured THEN [rows |-> table, entries |-> <<Reply(503, None)>>]
     ELSE IF Trim(jd) = <<>> THEN [rows |-> table, entries |-> <<Reply(400, None)>>]
     ELSE IF IsNullish(data) THEN [rows |-> table, entries |-> <<Reply(404, None)>>]
     ELSE IF result.threw
     THEN [rows |-> table, entries |-> <<LlmCall(reply), Reply(500, None)>>]
     ELSE [rows |-> SaveOptimized(table, id, mergedResume),
           entries |-> <<LlmCall(reply), Reply(200, Some(mergedResume))>>]

\* POST /api/analyze: the entries the request adds to the log
AnalyzePost(table, id, jd, useLLMExtraction, configured, reply) ==
  LET data == GetResume(table, id)
      keywords == ExtractKeywordsWithLLM(reply)
      Reply(status, body) == Response("analyze", id, status, body, reply)
  IN IF Trim(jd) = <<>> THEN <<Reply(400, None)>>
     ELSE IF IsNullish(data) THEN <<Reply(404, None)>>
     ELSE IF useLLMExtraction /\ configured
     THEN IF keywords.threw THEN <<LlmCall(reply), Reply(500, None)>>
          ELSE <<LlmCall(reply),
                 Reply(200, Some(CompareKeywordList(Get(data).parsed, Get(keywords.value))))>>
     ELSE <<Reply(200, Some(CompareKeywords(Get(data).parsed, jd)))>>

---------------------------------------------------------------------------
(* Inputs of the requests that call the model *)

LlmReplies ==
  { ReplyThrows, ReplyContent(None) }
    \cup { ReplyContent(Some(t)) :
             t \in { <<>>, R_blank, R_notJson, R_object, R_sections,
                     R_keywords, R_keywordsText } }

LlmJobTexts == { <<>>, <<" ">>, W_Golang }

\* the stored resume: skills Go, with or without an experience entry
LlmResumes ==
  { [MinimalResume EXCEPT !.skills = <<W_Go>>],
    [MinimalResume EXCEPT !.skills = <<W_Golang>>,
                          !.experience = <<ParsedExperience(0, 1)>>] }

InitLlm ==
  /\ pc = "ready"
  /\ resume \in LlmResumes
  /\ \E withOptimized \in BOOLEAN :
       rows = [id \in {DEFAULT_RESUME_ID} |->
                 [file_path |-> 1, parsed_json |-> resume,
                  optimized_json |-> IF withOptimized
                                     THEN Some(StoredOptimized(resume)) ELSE None]]
  /\ log = <<>>
  /\ files = <<>>
  /\ optimized = None
  /\ jobDescription = <<>>
  /\ keywordList = <<>>
  /\ response = EmptyResponse
  /\ payload = <<>>
  /\ merged = MinimalResume
  /\ docXml = <<>>
  /\ docHistory = <<>>

Optimize ==
  /\ pc = "ready"
  /\ \E id \in ExportIds, jd \in LlmJobTexts, configured \in BOOLEAN,
        reply \in LlmReplies :
       LET done == OptimizePost(rows, id, jd, configured, reply)
       IN /\ rows' = done.rows
          /\ log' = log \o done.entries
          /\ jobDescription' = jd
  /\ pc' = "optimize"
  /\ UNCHANGED <<resume, optimized, keywordList, response, payload, merged,
                 docXml, docHistory, files>>

Analyze ==
  /\ pc = "ready"
  /\ \E id \in ExportIds, jd \in LlmJobTexts, useLLMExtraction \in BOOLEAN,
        configured \in BOOLEAN, reply \in LlmReplies :
       /\ log' = log \o AnalyzePost(rows, id, jd, useLLMExtraction, configured, reply)
       /\ jobDescription' = jd
  /\ pc' = "analyze"
  /\ UNCHANGED <<resume, optimized, keywordList, response, payload, merged,
                 docXml, docHistory, rows, files>>

NextLlm == Optimize \/ Analyze

SpecLlm == InitLlm /\ [][NextLlm]_vars


\* the reply is a failure of the call: it threw, or its body is not JSON
FailedReply(reply) ==
  \/ reply.threw
  \/ /\ Truthy(RawOf(reply))
     /\ Get(RawOf(reply)) \notin { <<"{","}">>, R_sections, R_keywords, R_keywordsText }

\* the reply holds no text
EmptyReply(reply) ==
  /\ ~reply.threw
  /\ \/ IsNullish(reply.content)
     \/ \A i \in 1..Len(Get(reply.content)) : Get(reply.content)[i] = " "

LlmCalls(entries) == { n \in 1..Len(entries) : entries[n].op = "llm" }
Responses(entries) == { n \in 1..Len(entries) : entries[n].op # "llm" }

\* C16: an optimize request whose call of the model fails ends with exactly
\* one error response after exactly one call, and leaves the rows unchanged.
C16_OptimizeFailure ==
  [][ (/\ pc' = "optimize"
       /\ Cardinality(LlmCalls(log')) > Cardinality(LlmCalls(log))
       /\ FailedReply(log'[Len(log')].reply))
        => /\ rows' = rows
           /\ Len(log') = Len(log) + 2
           /\ log'[Len(log) + 1].op = "llm"
           /\ log'[Len(log) + 2].op = "optimize"
           /\ log'[Len(log) + 2].status >= 400
           /\ IsNullish(log'[Len(log) + 2].body) ]_vars

C16_Witness ==
  /\ pc = "optimize"
  /\ Len(log) = 2
  /\ log[1].op = "llm"
  /\ log[2].reply = ReplyContent(Some(R_notJson))
  /\ log[2].status = 500
  /\ ~IsNullish(rows[DEFAULT_RESUME_ID].optimized_json)

\* C17: a request that calls the model and gets an empty reply ends with an
\* error response, in the optimize and in the analyze request.
C17_EmptyReplyIsError ==
  \A n \in Responses(log) :
    (LlmCalls(log) # {} /\ EmptyReply(log[n].reply)) => log[n].status >= 400

---------------------------------------------------------------------------
(* Regular expressions of lib/resume-parser, as trees, and their matching. *)
(* A match is tried the way the engine tries it: leftmost start, then the  *)
(* alternatives and the greedy repetitions in their order of preference.   *)

WordChars == UpperSet \cup LowerSet \cup DigitSet \cup {"_"}
SpaceChars == {" ", "\t", "\n", "\r"}
LetterChars == UpperSet \cup LowerSet
DashChars == {"-", "u2013", "u2014"}
LineEnds == {"\n", "\r"}

Re_Set(cs) == [t |-> "set", cs |-> cs]
Re_Not(cs) == [t |-> "not", cs |-> cs]
Re_Cat(rs) == [t |-> "cat", rs |-> rs]
Re_Alt(rs) == [t |-> "alt", rs |-> rs]
Re_Star(r) == [t |-> "star", r |-> r]
Re_UpTo(r, n) == [t |-> "upto", r |-> r, n |-> n]
Re_Look(r) == [t |-> "look", r |-> r]
Re_Bol == [t |-> "bol"]
Re_BolM == [t |-> "bolm"]
Re_Eol == [t |-> "eol"]
Re_EolM == [t |-> "eolm"]
Re_WordEdge == [t |-> "edge"]
Re_Empty == Re_Cat(<<>>)
Re_Plus(r) == Re_Cat(<<r, Re_Star(r)>>)
Re_Opt(r) == Re_Alt(<<r, Re_Empty>>)
Re_Times(r, n) == Re_Cat([k \in 1..n |-> r])
Re_AtLeast(r, n) == Re_Cat(<<Re_Times(r, n), Re_Star(r)>>)
Re_Between(r, n, m) == Re_Cat(<<Re_Times(r, n), Re_UpTo(r, m - n)>>)
Re_Dot == Re_Not(LineEnds)
\* a literal text, as the characters allowed at each of its places
Re_Lit(str) == [t |-> "lit", cs |-> [k \in 1..Len(str) |-> {str[k]}]]
\* a literal text under the i flag
Re_LitI(str) ==
  [t |-> "lit", cs |-> [k \in 1..Len(str) |-> {LowerChar(str[k]), UpperChar(str[k])}]]

\* the sequence f as a list of its values, each computed once
Listed(f) == SubSeq(f, 1, Len(f))

\* the positions ps[idx[1]], ps[idx[2]], ...
PickAll(ps, idx) == Listed([n \in 1..Len(idx) |-> ps[idx[n]]])

\* a list of positions without the repetitions of a position
Distinct(ps) ==
  IF Len(ps) <= 1 THEN ps
  ELSE PickAll(ps, SelectSeq([k \in 1..Len(ps) |-> k],
                             LAMBDA k : \A j \in 1..(k - 1) : ps[j] # ps[k]))

\* the positions after the positions of ps
Shifted(ps) == Listed([n \in 1..Len(ps) |-> ps[n] + 1])

\* the positions from j down to i
DownTo(j, i) == Listed([k \in 1..(j + 1 - i) |-> j + 1 - k])

\* the ends of the matches of re that start at position i of s, in the
\* order the engine prefers them
RECURSIVE Ends(_, _, _)
RECURSIVE EndsFromAll(_, _, _, _, _)
RECURSIVE CatEnds(_, _, _, _, _)
RECURSIVE AltEnds(_, _, _, _, _)
RECURSIVE RepeatFromAll(_, _, _, _, _, _)
RECURSIVE RepeatEnds(_, _, _, _)

\* the ends from starts[lo], then from starts[lo + 1], ... up to starts[hi]
EndsFromAll(re, s, starts, lo, hi) ==
  IF lo > hi THEN <<>>
  ELSE IF lo = hi THEN Ends(re, s, starts[lo])
  ELSE EndsFromAll(re, s, starts, lo, (lo + hi) \div 2)
         \o EndsFromAll(re, s, starts, (lo + hi) \div 2 + 1, hi)

\* the character c is of the class r
InClass(r, c) == (r.t = "set") = (c \in r.cs)

\* the positions of starts at which a character of the class r stands
ClassFromAll(r, s, starts) ==
  SelectSeq(starts, LAMBDA p : p <= Len(s) /\ InClass(r, s[p]))

\* the ends of r from each of the starts
ElementEnds(r, s, starts) ==
  IF r.t \in {"set", "not"} THEN Shifted(ClassFromAll(r, s, starts))
  ELSE IF Len(starts) = 1 THEN Ends(r, s, starts[1])
  ELSE Distinct(EndsFromAll(r, s, starts, 1, Len(starts)))

\* the ends of rs[lo], then rs[lo + 1], ... up to rs[hi], from the starts
CatEnds(rs, lo, hi, s, starts) ==
  IF starts = <<>> \/ lo > hi THEN starts
  ELSE IF lo = hi THEN ElementEnds(rs[lo], s, starts)
  ELSE CatEnds(rs, (lo + hi) \div 2 + 1, hi, s,
               CatEnds(rs, lo, (lo + hi) \div 2, s, starts))

\* the ends of rs[lo], then those of rs[lo + 1], ... up to rs[hi], from i
AltEnds(rs, lo, hi, s, i) ==
  IF lo > hi THEN <<>>
  ELSE IF lo = hi THEN Ends(rs[lo], s, i)
  ELSE AltEnds(rs, lo, (lo + hi) \div 2, s, i)
         \o AltEnds(rs, (lo + hi) \div 2 + 1, hi, s, i)

RepeatFromAll(r, s, starts, n, lo, hi) ==
  IF lo > hi THEN <<>>
  ELSE IF lo = hi THEN RepeatEnds(r, s, starts[lo], n)
  ELSE RepeatFromAll(r, s, starts, n, lo, (lo + hi) \div 2)
         \o RepeatFromAll(r, s, starts, n, (lo + hi) \div 2 + 1, hi)

\* the positions from lo to hi
Positions(lo, hi) == Listed([k \in 1..(hi + 1 - lo) |-> lo + k - 1])

\* the first of the positions ps, or other when there is none
FirstOrElse(ps, other) == IF ps = <<>> THEN other ELSE ps[1]

\* the position after the longest run of characters of the class r from
\* position i to position hi
RunTo(r, s, i, hi) ==
  FirstOrElse(SelectSeq(Positions(i, hi), LAMBDA k : ~InClass(r, s[k])), hi + 1)

\* the position after the longest run of at most n characters of the class r
\* from position i on
RunEnd(r, s, i, n) ==
  RunTo(r, s, i, IF i + n - 1 > Len(s) THEN Len(s) ELSE i + n - 1)

\* the further rounds from the ends of one round
RepeatMore(r, s, once, n) == RepeatFromAll(r, s, once, n, 1, Len(once))

\* at most n further rounds of r, the longer first; a round that takes no
\* character ends the repetition. Rounds of one character class are a run.
RepeatEnds(r, s, i, n) ==
  IF n = 0 THEN <<i>>
  ELSE IF r.t \in {"set", "not"} THEN DownTo(RunEnd(r, s, i, n), i)
  ELSE Distinct(RepeatMore(r, s, SelectSeq(Ends(r, s, i), LAMBDA j : j > i), n - 1)
                  \o <<i>>)

IsWordAt(s, i) == i >= 1 /\ i <= Len(s) /\ s[i] \in WordChars

Ends(re, s, i) ==
  CASE re.t = "set" -> IF i <= Len(s) /\ s[i] \in re.cs THEN <<i + 1>> ELSE <<>>
    [] re.t = "not" -> IF i <= Len(s) /\ s[i] \notin re.cs THEN <<i + 1>> ELSE <<>>
    [] re.t = "lit" -> IF /\ i + Len(re.cs) - 1 <= Len(s)
                          /\ \A k \in 1..Len(re.cs) : s[i + k - 1] \in re.cs[k]
                       THEN <<i + Len(re.cs)>> ELSE <<>>
    [] re.t = "cat" -> CatEnds(re.rs, 1, Len(re.rs), s, <<i>>)
    [] re.t = "alt" -> Distinct(AltEnds(re.rs, 1, Len(re.rs), s, i))
    [] re.t = "star" -> RepeatEnds(re.r, s, i, Len(s) + 1)
    [] re.t = "upto" -> RepeatEnds(re.r, s, i, re.n)
    [] re.t = "look" -> IF Ends(re.r, s, i) # <<>> THEN <<i>> ELSE <<>>
    [] re.t = "bol" -> IF i = 1 THEN <<i>> ELSE <<>>
    [] re.t = "bolm" -> IF i = 1 \/ s[i - 1] \in LineEnds THEN <<i>> ELSE <<>>
    [] re.t = "eol" -> IF i = Len(s) + 1 THEN <<i>> ELSE <<>>
    [] re.t = "eolm" -> IF i = Len(s) + 1 \/ s[i] \in LineEnds THEN <<i>> ELSE <<>>
    [] re.t = "edge" -> IF IsWordAt(s, i - 1) # IsWordAt(s, i) THEN <<i>> ELSE <<>>

\* RegExp.prototype.test
Test(re, s) == \E k \in 1..(Len(s) + 1) : Ends(re, s, k) # <<>>

\* the leftmost position where re matches, or 0
FirstStart(re, s) ==
  IF \E k \in 1..(Len(s) + 1) : Ends(re, s, k) # <<>>
  THEN CHOOSE k \in 1..(Len(s) + 1) :
         Ends(re, s, k) # <<>> /\ \A j \in 1..(k - 1) : Ends(re, s, j) = <<>>
  ELSE 0

\* the match that starts at q, or none when q is 0
MatchFrom(re, s, q) ==
  IF q = 0 THEN None ELSE Some([index |-> q, end |-> Ends(re, s, q)[1]])

\* RegExp.prototype.exec: the first match, as the position it starts at and
\* the position after its end
Exec(re, s) == MatchFrom(re, s, FirstStart(re, s))

\* the text of the match m
TextOf(s, m) ==
  IF m = None THEN None ELSE Some(SubSeq(s, m[1].index, m[1].end - 1))

\* match[0] of String.prototype.match
Match0(re, s) == TextOf(s, Exec(re, s))

\* the first of the ends of `first` from which `rest` matches
MiddleOf(rest, s, ends) == SelectSeq(ends, LAMBDA p : Ends(rest, s, p) # <<>>)[1]

GroupAfterIn(before, group, s, m) ==
  IF m = None THEN None
  ELSE Some(SubSeq(s, MiddleOf(group, s, Ends(before, s, m[1].index)),
                   m[1].end - 1))

\* match[1] where the expression is before(group): the group starts after
\* the first end of `before` from which the group matches
GroupAfter(before, group, s) ==
  GroupAfterIn(before, group, s, Exec(Re_Cat(<<before, group>>), s))

GroupBeforeIn(group, after, s, m) ==
  IF m = None THEN None
  ELSE Some(SubSeq(s, m[1].index,
                   MiddleOf(after, s, Ends(group, s, m[1].index)) - 1))

\* match[1] where the expression is (group)after: the group ends at the
\* first of its ends from which `after` matches
GroupBefore(group, after, s) ==
  GroupBeforeIn(group, after, s, Exec(Re_Cat(<<group, after>>), s))

\* the end the engine prefers among the ends e, or 0 when there is no match
EndOrZero(e) == IF e = <<>> THEN 0 ELSE e[1]

\* for each position from 1 to hi, the end of the match of re at it, or 0
EndTable(re, s, hi) == Listed([k \in 1..hi |-> EndOrZero(Ends(re, s, k))])

\* the positions where a match starts, from the table of the ends
StartsIn(ends) == SelectSeq(Positions(1, Len(ends)), LAMBDA k : ends[k] # 0)

\* where the search goes on after the j-th of the starts; before the first,
\* it is at position 1
EndAt(starts, ends, j) == IF j = 0 THEN 1 ELSE ends[starts[j]]

\* the i-th of the starts can be the match found after the j-th: it does
\* not start before the end of the j-th and, in a split, it is not an empty
\* match at the very position where the piece starts
Follows(starts, ends, split, j, i) ==
  /\ starts[i] >= EndAt(starts, ends, j)
  /\ split => ~(starts[i] = EndAt(starts, ends, j) /\ ends[starts[i]] = starts[i])

\* the match found after the j-th of the starts; Len(starts) + 1 for none
NextOf(starts, ends, split, j) ==
  CHOOSE i \in (j + 1)..(Len(starts) + 1) :
    /\ i = Len(starts) + 1 \/ Follows(starts, ends, split, j, i)
    /\ \A h \in (j + 1)..(i - 1) : ~Follows(starts, ends, split, j, h)

Jumps(starts, ends, split) ==
  Listed([j \in 1..(Len(starts) + 1) |->
            IF j = Len(starts) + 1 THEN j ELSE NextOf(starts, ends, split, j)])

\* the matches found one after the other from those reached: their reach
\* under `jump`, by doubling the jump
RECURSIVE Orbit(_, _)
Orbit(reached, jump) ==
  IF \A r \in reached : jump[r] \in reached THEN reached
  ELSE Orbit(reached \cup {jump[r] : r \in reached},
             Listed([x \in 1..Len(jump) |-> jump[jump[x]]]))

\* those of the starts that are reached
Reached(starts, reached) ==
  PickAll(starts, SelectSeq(Positions(1, Len(starts)), LAMBDA i : i \in reached))

FoundAmong(starts, ends, split) ==
  Reached(starts, Orbit({NextOf(starts, ends, split, 0)},
                        Jumps(starts, ends, split)))

\* the starts of the successive matches, from the table of the ends
Found(ends, split) == FoundAmong(StartsIn(ends), ends, split)

\* the text before the first of the matches that start at qs, the texts
\* between two of them, and the text after the last
Pieces(s, ends, qs) ==
  Listed([k \in 1..(Len(qs) + 1) |->
            SubSeq(s, IF k = 1 THEN 1 ELSE ends[qs[k - 1]],
                      IF k > Len(qs) THEN Len(s) ELSE qs[k] - 1)])

SplitWith(s, ends) == Pieces(s, ends, Found(ends, TRUE))

\* String.prototype.split(re), by the steps of the language's definition: a
\* match is looked for from the start of the piece up to the last character,
\* and an empty match at the start of the piece is passed over
SplitRe(s, re) ==
  IF s = <<>> THEN (IF Ends(re, s, 1) # <<>> THEN <<>> ELSE <<s>>)
  ELSE SplitWith(s, EndTable(re, s, Len(s)))

\* parts[lo] to parts[lo + 1] to ... parts[hi]
RECURSIVE Interleave(_, _, _, _)
Interleave(parts, to, lo, hi) ==
  IF lo = hi THEN parts[lo]
  ELSE Interleave(parts, to, lo, (lo + hi) \div 2) \o to
         \o Interleave(parts, to, (lo + hi) \div 2 + 1, hi)

Interleaved(parts, to) == Interleave(parts, to, 1, Len(parts))

ReplaceWith(s, to, ends) == Interleaved(Pieces(s, ends, Found(ends, FALSE)), to)

\* String.prototype.replace(re, to) with the g flag: a match is looked for
\* up to the end of the text, and after an empty match the search goes on one
\* character further
ReplaceReAll(s, re, to) ==
  IF s = <<>> THEN (IF Ends(re, s, 1) # <<>> THEN to ELSE s)
  ELSE ReplaceWith(s, to, EndTable(re, s, Len(s) + 1))

ReplaceMatch(s, to, m) ==
  IF m = None THEN s
  ELSE SubSeq(s, 1, m[1].index - 1) \o to \o SliceFrom(s, m[1].end)

\* String.prototype.replace(re, to) without the g flag: the first match only
ReplaceReFirst(s, re, to) == ReplaceMatch(s, to, Exec(re, s))

\* String.prototype.split with a non-empty separator text
SplitText(s, sep) == SplitRe(s, Re_Lit(sep))

\* String.prototype.replace(/from/g, to) for a literal text `from`
ReplaceText(str, from, to) == ReplaceReAll(str, Re_Lit(from), to)

---------------------------------------------------------------------------
(* lib/resume-parser: parseEducationBlock *)

W_University == <<"U","n","i","v","e","r","s","i","t","y">>
W_College == <<"C","o","l","l","e","g","e">>
W_Institute == <<"I","n","s","t","i","t","u","t","e">>
W_School == <<"S","c","h","o","o","l">>
W_Bachelor == <<"B","a","c","h","e","l","o","r">>
W_Master == <<"M","a","s","t","e","r">>
W_PhD == <<"P","h","D">>
W_GPA == <<"G","P","A">>
W_Present == <<"P","r","e","s","e","n","t">>

Re_Word == Re_Set(WordChars)
Re_Space == Re_Set(SpaceChars)
Re_Digit == Re_Set(DigitSet)
Re_Letter == Re_Set(LetterChars)
Re_WordOrSpace == Re_Set(WordChars \cup SpaceChars)

\* B\.?S\.? and the like, under the i flag
DegreeLetters(a, b) ==
  Re_Cat(<<Re_LitI(<<a>>), Re_Opt(Re_Lit(<<".">>)),
           Re_LitI(<<b>>), Re_Opt(Re_Lit(<<".">>))>>)

DegreeAbbreviations ==
  <<DegreeLetters("B", "S"), DegreeLetters("M", "S"),
    DegreeLetters("B", "A"), DegreeLetters("M", "A")>>

\* \n(?=[A-Z][a-z].*(?:University|...|M\.?A\.?)) with the i flag
EducationStart ==
  Re_Cat(<<Re_Lit(<<"\n">>),
           Re_Look(Re_Cat(<<Re_Letter, Re_Letter, Re_Star(Re_Dot),
             Re_Alt(<<Re_LitI(W_University), Re_LitI(W_College),
                      Re_LitI(W_Institute), Re_LitI(W_School),
                      Re_LitI(W_Bachelor), Re_LitI(W_Master),
                      Re_LitI(W_PhD)>> \o DegreeAbbreviations)>>))>>)

\* \w+\s+\d{4}\s*[-u2013u2014]\s* : the start of a date range
DateRangeStart ==
  Re_Cat(<<Re_Plus(Re_Word), Re_Plus(Re_Space), Re_Times(Re_Digit, 4),
           Re_Star(Re_Space), Re_Set(DashChars), Re_Star(Re_Space)>>)

\* (\w+\s+\d{4}\s*[-u2013u2014]\s*(?:\w+\s+)?\d{4})
EducationDates ==
  Re_Cat(<<DateRangeStart,
           Re_Opt(Re_Cat(<<Re_Plus(Re_Word), Re_Plus(Re_Space)>>)),
           Re_Times(Re_Digit, 4)>>)

\* (\w+\s+\d{4}\s*[-u2013u2014]\s*(?:Present|\w+\s+\d{4})) with the i flag
DATE_RANGE_REGEX ==
  Re_Cat(<<DateRangeStart,
           Re_Alt(<<Re_LitI(W_Present),
                    Re_Cat(<<Re_Plus(Re_Word), Re_Plus(Re_Space),
                             Re_Times(Re_Digit, 4)>>)>>)>>)

\* GPA[:\s]*([\d.]+) with the i flag, as the part before the group and the group
GpaLabel == Re_Cat(<<Re_LitI(W_GPA), Re_Star(Re_Set(SpaceChars \cup {":"}))>>)
GpaNumber == Re_Plus(Re_Set(DigitSet \cup {"."}))

\* (?:B\.?S\.?|...|PhD|Bachelor'?s?|Master'?s?)\s*(?:in\s+[\w\s]+)? with the i flag
DegreePhrase ==
  Re_Cat(<<Re_Alt(DegreeAbbreviations \o
             <<Re_LitI(W_PhD),
               Re_Cat(<<Re_LitI(W_Bachelor), Re_Opt(Re_Lit(<<"'">>)),
                        Re_Opt(Re_LitI(<<"s">>))>>),
               Re_Cat(<<Re_LitI(W_Master), Re_Opt(Re_Lit(<<"'">>)),
                        Re_Opt(Re_LitI(<<"s">>))>>)>>),
           Re_Star(Re_Space),
           Re_Opt(Re_Cat(<<Re_LitI(<<"i","n">>), Re_Plus(Re_Space),
                           Re_Plus(Re_WordOrSpace)>>))>>)

\* (?:University of [^|\n]+|[\w\s]+(?:University|College|Institute)
\*    (?:\s+of\s+[\w\s]+)?)(?=\s*[|\n]|$) with the i flag
SchoolPattern ==
  Re_Cat(<<Re_Alt(<<
             Re_Cat(<<Re_LitI(W_University \o <<" ","o","f"," ">>),
                      Re_Plus(Re_Not({"|", "\n"}))>>),
             Re_Cat(<<Re_Plus(Re_WordOrSpace),
                      Re_Alt(<<Re_LitI(W_University), Re_LitI(W_College),
                               Re_LitI(W_Institute)>>),
                      Re_Opt(Re_Cat(<<Re_Plus(Re_Space), Re_LitI(<<"o","f">>),
                                      Re_Plus(Re_Space),
                                      Re_Plus(Re_WordOrSpace)>>))>>)>>),
           Re_Look(Re_Alt(<<Re_Cat(<<Re_Star(Re_Space), Re_Set({"|", "\n"})>>),
                            Re_Eol>>))>>)

\* \s*\|\s*GPA.*$ with the i flag
GpaTail ==
  Re_Cat(<<Re_Star(Re_Space), Re_Lit(<<"|">>), Re_Star(Re_Space),
           Re_LitI(W_GPA), Re_Star(Re_Dot), Re_Eol>>)

\* ^GPA with the i flag
GpaLine == Re_Cat(<<Re_Bol, Re_LitI(W_GPA)>>)

\* s || undefined
OrUndefined(o) == IF Truthy(o) THEN o ELSE None

\* t.split(/\n/)[0]?.trim() ?? ""
FirstLineOf(t) == Trim(SplitText(t, <<"\n">>)[1])

\* school = schoolMatch[0].replace(/\s*\|\s*GPA.*$/i, "").trim()
WithoutGpaTail(o) ==
  IF o # None THEN Some(Trim(ReplaceReFirst(o[1], GpaTail, <<>>))) ELSE None

\* the first line is neither empty nor a date range nor a GPA line
IsSchoolLine(firstLine) ==
  /\ firstLine # <<>>
  /\ ~Test(DATE_RANGE_REGEX, firstLine)
  /\ ~Test(GpaLine, firstLine)

\* the school when no school pattern matched: never the first line
SchoolOrFirstLineNever(school, firstLine) == school

\* if (!school) { ... if (firstLine && !DATE_RANGE_REGEX.test(firstLine) &&
\*   !/^GPA/i.test(firstLine)) school = firstLine.replace(...).trim() }
SchoolOrFirstLine(school, firstLine) ==
  IF Truthy(school) THEN school
  ELSE IF IsSchoolLine(firstLine) THEN WithoutGpaTail(Some(firstLine))
  ELSE school

\* let school ... if (schoolMatch) ... if (!school) ...
SchoolOfBlock(t) ==
  SchoolOrFirstLine(WithoutGpaTail(Match0(SchoolPattern, t)), FirstLineOf(t))

\* degreeMatch ? degreeMatch[0].trim() : undefined
Trimmed(o) == IF o # None THEN Some(Trim(o[1])) ELSE None

\* the entry pushed for one block, whose trimmed text is t
EducationEntryOf(t) ==
  [rawText |-> Some(t),
   school |-> OrUndefined(SchoolOfBlock(t)),
   degree |-> OrUndefined(Trimmed(Match0(DegreePhrase, t))),
   dates |-> Match0(EducationDates, t),
   gpa |-> GroupAfter(GpaLabel, GpaNumber, t)]

\* if (!t) continue; entries.push(...)
EntryIfText(t) == IF t = <<>> THEN <<>> ELSE <<EducationEntryOf(t)>>

RECURSIVE ParsedBlocks(_)
ParsedBlocks(blocks) ==
  IF blocks = <<>> THEN <<>>
  ELSE EntryIfText(Trim(Head(blocks))) \o ParsedBlocks(Tail(blocks))

\* if (entries.length === 0 && text.trim()) entries.push({ rawText })
EntriesOrRawText(entries, text) ==
  IF entries = <<>> /\ Trim(text) # <<>>
  THEN <<[EmptyEducation EXCEPT !.rawText = Some(Trim(text))]>>
  ELSE entries

ParseEducationBlock(text) ==
  EntriesOrRawText(ParsedBlocks(SplitRe(text, EducationStart)), text)

---------------------------------------------------------------------------
(* The education extractor on small section texts *)

MaxEducationLines == 2

W_Acme == <<"A","c","m","e">>
W_Blank == <<" "," ">>
W_ToPresent == <<"J"," ","2","0","2","0","-","P","r","e","s","e","n","t">>
W_Years == <<"J"," ","2","0","2","0","-","2","0","2","1">>
W_Gpa35 == <<"G","P","A"," ","3",".","5">>
W_BS == <<"B","S">>
W_AbCollege == <<"A","b"," ","C","o","l","l","e","g","e">>
W_AbSchool == <<"A","b"," ","S","c","h","o","o","l">>

EducationLines ==
  { W_Acme, W_Blank, W_ToPresent, W_Years, W_Gpa35, W_BS, W_AbCollege,
    W_AbSchool }

EducationTexts ==
  { Join(ls, <<"\n">>) : ls \in SeqsUpTo(EducationLines, MaxEducationLines) }

InitEducation ==
  /\ pc = "ready"
  /\ IdleStore
  /\ docXml \in EducationTexts
  /\ resume = MinimalResume
  /\ optimized = None
  /\ docHistory = <<>>
  /\ jobDescription = <<>>
  /\ keywordList = <<>>
  /\ response = EmptyResponse
  /\ payload = <<>>
  /\ merged = MinimalResume

\* resume.education = parseEducationBlock(content)
ParseEducation ==
  /\ pc = "ready"
  /\ resume' = [resume EXCEPT !.education = ParseEducationBlock(docXml)]
  /\ pc' = "parseEducationBlock"
  /\ UNCHANGED <<optimized, jobDescription, keywordList, response, payload,
                 merged, docXml, docHistory, rows, log, files>>

NextEducation == ParseEducation

SpecEducation == InitEducation /\ [][NextEducation]_vars

\* the section text has content and none of the patterns of the extractor
\* finds anything in it
Unstructured(text) ==
  /\ Trim(text) # <<>>
  /\ Len(SplitRe(text, EducationStart)) = 1
  /\ ~Test(EducationDates, text)
  /\ ~Test(DATE_RANGE_REGEX, text)
  /\ ~Test(GpaLabel, text)
  /\ ~Test(DegreePhrase, text)
  /\ ~Test(SchoolPattern, text)

\* C18 as stated: an education section without parseable structure gives
\* exactly one entry with a non-empty rawText and with school, degree, dates
\* and gpa all undefined.
C18_EducationFallback ==
  (pc = "parseEducationBlock" /\ Unstructured(docXml))
    => /\ Len(resume.education) = 1
       /\ Truthy(resume.education[1].rawText)
       /\ resume.education[1].school = None
       /\ resume.education[1].degree = None
       /\ resume.education[1].dates = None
       /\ resume.education[1].gpa = None

\* C18 amended: an education section without parseable structure gives
\* exactly one entry, whose rawText is the trimmed text, whose school is the
\* first line of that text, and whose degree, dates and gpa are undefined.
C18_EducationFallbackFirstLine ==
  (pc = "parseEducationBlock" /\ Unstructured(docXml))
    => /\ Len(resume.education) = 1
       /\ resume.education[1].rawText = Some(Trim(docXml))
       /\ Trim(docXml) # <<>>
       /\ resume.education[1].school = Some(FirstLineOf(Trim(docXml)))
       /\ resume.education[1].degree = None
       /\ resume.education[1].dates = None
       /\ resume.education[1].gpa = None

C18_Witness ==
  /\ pc = "parseEducationBlock"
  /\ docXml = W_Acme \o <<"\n">> \o W_Acme
  /\ Unstructured(docXml)
  /\ resume.education =
       <<[EmptyEducation EXCEPT !.rawText = Some(docXml), !.school = Some(W_Acme)]>>

---------------------------------------------------------------------------
(* lib/resume-parser: the helpers and the other extractors *)

\* title.trim().toLowerCase().replace(/\s+/g, " ")
NormalizeSectionTitle(title) ==
  ReplaceReAll(ToLowerCase(Trim(title)), Re_Plus(Re_Space), <<" ">>)

\* <br\s*\/?> with the i flag
BrTag ==
  Re_Cat(<<Re_LitI(<<"<","b","r">>), Re_Star(Re_Space), Re_Opt(Re_Lit(<<"/">>)),
           Re_Lit(<<">">>)>>)

\* <[^>]+>
AnyTag == Re_Cat(<<Re_Lit(<<"<">>), Re_Plus(Re_Not({">"})), Re_Lit(<<">">>)>>)

StripHtml(html) ==
  LET a == ReplaceReAll(html, BrTag, <<"\n">>)
      b == ReplaceReAll(a, Re_LitI(<<"<","/","p",">">>), <<"\n">>)
      c == ReplaceReAll(b, Re_LitI(<<"<","/","l","i",">">>), <<"\n">>)
      d == ReplaceReAll(c, AnyTag, <<>>)
      e == ReplaceText(d, <<"&","n","b","s","p",";">>, <<" ">>)
      f == ReplaceText(e, <<"&","a","m","p",";">>, <<"&">>)
      g == ReplaceText(f, <<"&","l","t",";">>, <<"<">>)
      h == ReplaceText(g, <<"&","g","t",";">>, <<">">>)
  IN Trim(h)

\* .map((l) => l.trim())
TrimEach(xs) == Listed([k \in 1..Len(xs) |-> Trim(xs[k])])

\* .filter(Boolean)
NonEmptyOnes(xs) == SelectSeq(xs, LAMBDA l : l # <<>>)

\* text.split(/\n/).map((l) => l.trim()).filter(Boolean)
TrimmedLines(text) == NonEmptyOnes(TrimEach(SplitText(text, <<"\n">>)))

\* ^[u2022 u2023 u25E6 u2043 u2219 \- \* \d + \.]\s*
BulletStart ==
  Re_Cat(<<Re_Bol,
           Re_Set({"u2022", "u2023", "u25E6", "u2043", "u2219", "-", "*", "+", "."}
                  \cup DigitSet),
           Re_Star(Re_Space)>>)

\* .map((l) => l.replace(/^[...]\s*/, "").trim())
Unbulleted(lines) ==
  Listed([k \in 1..Len(lines) |->
            Trim(ReplaceReFirst(lines[k], BulletStart, <<>>))])

\* bullets.length > 0 ? bullets : lines
BulletsOrLines(bullets, lines) == IF Len(bullets) > 0 THEN bullets ELSE lines

BulletsOfLines(lines) == BulletsOrLines(NonEmptyOnes(Unbulleted(lines)), lines)

ExtractBullets(text) == BulletsOfLines(TrimmedLines(text))

\* [\w.+%-]+@[\w.-]+\.[A-Za-z]{2,}
EmailPattern ==
  Re_Cat(<<Re_Plus(Re_Set(WordChars \cup {".", "+", "%", "-"})), Re_Lit(<<"@">>),
           Re_Plus(Re_Set(WordChars \cup {".", "-"})), Re_Lit(<<".">>),
           Re_AtLeast(Re_Letter, 2)>>)

\* \+?[\d\s\-().]{10,}
PhonePattern ==
  Re_Cat(<<Re_Opt(Re_Lit(<<"+">>)),
           Re_AtLeast(Re_Set(DigitSet \cup SpaceChars \cup {"-", "(", ")", "."}), 10)>>)

\* linkedin\.com\/in\/[^\s]+ with the i flag
LinkedInPattern ==
  Re_Cat(<<Re_LitI(<<"l","i","n","k","e","d","i","n",".","c","o","m","/","i","n","/">>), Re_Plus(Re_Not(SpaceChars))>>)

\* (?:Seattle|San Jose|Los Angeles|[\w\s]+,\s*(?:CA|WA|Washington))
ContactLocation ==
  Re_Alt(<<Re_Lit(<<"S","e","a","t","t","l","e">>), Re_Lit(<<"S","a","n"," ","J","o","s","e">>), Re_Lit(<<"L","o","s"," ","A","n","g","e","l","e","s">>),
           Re_Cat(<<Re_Plus(Re_WordOrSpace), Re_Lit(<<",">>), Re_Star(Re_Space),
                    Re_Alt(<<Re_Lit(<<"C","A">>), Re_Lit(<<"W","A">>),
                             Re_Lit(<<"W","a","s","h","i","n","g","t","o","n">>)>>)>>)>>)

\* [A-Z][a-z]+
CapitalizedWord == Re_Cat(<<Re_Set(UpperSet), Re_Plus(Re_Set(LowerSet))>>)

\* ^([A-Z][a-z]+\s+[A-Z][a-z]+(?:\s+[A-Z][a-z]+)?)\s*[\s|] with the m flag,
\* as the group and the part after it
NameGroup ==
  Re_Cat(<<Re_BolM, CapitalizedWord, Re_Plus(Re_Space), CapitalizedWord,
           Re_Opt(Re_Cat(<<Re_Plus(Re_Space), CapitalizedWord>>))>>)
NameEnd == Re_Cat(<<Re_Star(Re_Space), Re_Set(SpaceChars \cup {"|"})>>)

\* ^[A-Za-z\s]+$
LettersOnly == Re_Cat(<<Re_Bol, Re_Plus(Re_Set(LetterChars \cup SpaceChars)), Re_Eol>>)

WithTrim(o) == IF o = None THEN None ELSE Some(Trim(o[1]))

\* contact.linkedin = "https://" + linkedin[0]
LinkedInUrl(o) == IF o = None THEN None ELSE Some(<<"h","t","t","p","s",":","/","/">> \o o[1])

\* first.length < 50 && !first.includes("@") &&
\*   /^[A-Za-z\s]+$/.test(first.replace(/\s/g, ""))
LooksLikeName(first) ==
  /\ first # <<>>
  /\ Len(first) < 50
  /\ ~Includes(first, <<"@">>)
  /\ Test(LettersOnly, ReplaceReAll(first, Re_Space, <<>>))

\* if (lines.length > 0 && !contact.name) { ... contact.name = first }
NameOrFirstLine(nameMatch, lines) ==
  IF Len(lines) > 0 /\ ~Truthy(nameMatch) /\ LooksLikeName(lines[1])
  THEN Some(lines[1]) ELSE nameMatch

ParseContactBlock(text) ==
  [email |-> Match0(EmailPattern, text),
   phone |-> WithTrim(Match0(PhonePattern, text)),
   linkedin |-> LinkedInUrl(Match0(LinkedInPattern, text)),
   location |-> WithTrim(Match0(ContactLocation, text)),
   name |-> NameOrFirstLine(WithTrim(GroupBefore(NameGroup, NameEnd, text)),
                            TrimmedLines(text))]

\* { ...contact, ...found }: the keys found replace those of contact
SpreadContact(contact, found) ==
  [k \in DOMAIN contact |-> IF found[k] # None THEN found[k] ELSE contact[k]]

\* text.replace(/\n/g, ",").replace(/,+/g, ",").split(",")
\*   .map((s) => s.trim()).filter(Boolean)
ParseSkillsBlock(text) ==
  NonEmptyOnes(TrimEach(SplitText(
    ReplaceReAll(ReplaceText(text, <<"\n">>, <<",">>), Re_Plus(Re_Lit(<<",">>)), <<",">>),
    <<",">>)))

\* \n(?=[A-Z][^\n]{5,60}\s*\|\s*[A-Za-z])
ProjectStart ==
  Re_Cat(<<Re_Lit(<<"\n">>),
           Re_Look(Re_Cat(<<Re_Set(UpperSet), Re_Between(Re_Not({"\n"}), 5, 60),
                            Re_Star(Re_Space), Re_Lit(<<"|">>), Re_Star(Re_Space),
                            Re_Letter>>))>>)

\* \s*\|.*$
BarTail ==
  Re_Cat(<<Re_Star(Re_Space), Re_Lit(<<"|">>), Re_Star(Re_Dot), Re_Eol>>)

\* firstLine.replace(/\s*\|.*$/, "").trim() || firstLine
TitleOrLine(stripped, firstLine) == IF stripped # <<>> THEN stripped ELSE firstLine

ProjectFrom(part, firstLine) ==
  [title |-> OrUndefined(Some(TitleOrLine(
                Trim(ReplaceReFirst(firstLine, BarTail, <<>>)), firstLine))),
   bullets |-> Some(ExtractBullets(SliceFrom(part, Len(firstLine) + 1)))]

ProjectOf(part) == ProjectFrom(part, Trim(SplitText(part, <<"\n">>)[1]))

\* bullets.length > 0 ? bullets : [text.trim()]
BulletsOrText(bullets, text) == IF Len(bullets) > 0 THEN bullets ELSE <<Trim(text)>>

\* the entry pushed when no part gave one
FallbackBullets(text) == BulletsOrText(ExtractBullets(text), text)

ProjectsOf(parts) == Listed([k \in 1..Len(parts) |-> ProjectOf(parts[k])])

\* if (entries.length === 0 && text.trim()) entries.push({ bullets })
ProjectsOrFallback(entries, text) ==
  IF Len(entries) = 0 /\ Trim(text) # <<>>
  THEN <<[title |-> None, bullets |-> Some(FallbackBullets(text))]>>
  ELSE entries

ParseProjectsBlock(text) ==
  ProjectsOrFallback(
    ProjectsOf(SelectSeq(SplitRe(text, ProjectStart), LAMBDA p : Trim(p) # <<>>)),
    text)

---------------------------------------------------------------------------
(* lib/resume-parser: parseExperienceBlock *)

\* \n(?=[A-Za-z][^\n]{1,45}\n\s*\|)
EXPERIENCE_JOB_SPLIT ==
  Re_Cat(<<Re_Lit(<<"\n">>),
           Re_Look(Re_Cat(<<Re_Letter, Re_Between(Re_Not({"\n"}), 1, 45),
                            Re_Lit(<<"\n">>), Re_Star(Re_Space), Re_Lit(<<"|">>)>>))>>)

\* \n(?=[^\n]*\t\w+\s+\d{4}\s*[-u2013u2014])
EXPERIENCE_JOB_SPLIT_TAB_DATE ==
  Re_Cat(<<Re_Lit(<<"\n">>),
           Re_Look(Re_Cat(<<Re_Star(Re_Not({"\n"})), Re_Lit(<<"\t">>),
                            Re_Plus(Re_Word), Re_Plus(Re_Space),
                            Re_Times(Re_Digit, 4), Re_Star(Re_Space),
                            Re_Set(DashChars)>>))>>)

\* (\w+\s+\d{4}\s*[-u2013u2014]\s*(?:Present|\w+\s+\d{4})) with the i flag
EXPERIENCE_DATE_REGEX == DATE_RANGE_REGEX

\* engineer|developer|lead|analyst|manager|designer|founder|architect, i flag
ROLE_KEYWORDS ==
  Re_Alt(<<Re_LitI(<<"e","n","g","i","n","e","e","r">>), Re_LitI(<<"d","e","v","e","l","o","p","e","r">>), Re_LitI(<<"l","e","a","d">>),
           Re_LitI(<<"a","n","a","l","y","s","t">>), Re_LitI(<<"m","a","n","a","g","e","r">>), Re_LitI(<<"d","e","s","i","g","n","e","r">>),
           Re_LitI(<<"f","o","u","n","d","e","r">>), Re_LitI(<<"a","r","c","h","i","t","e","c","t">>)>>)

Re_LetterOrSpace == Re_Set(LetterChars \cup SpaceChars)

\* [A-Za-z\s]+,\s*(?:[A-Z]{2}|Washington|California|NY|TX) with the i flag
CityAndState ==
  Re_Cat(<<Re_Plus(Re_LetterOrSpace), Re_Lit(<<",">>), Re_Star(Re_Space),
           Re_Alt(<<Re_Times(Re_Letter, 2), Re_LitI(<<"W","a","s","h","i","n","g","t","o","n">>),
                    Re_LitI(<<"C","a","l","i","f","o","r","n","i","a">>), Re_LitI(<<"N","Y">>), Re_LitI(<<"T","X">>)>>)>>)

\* ^[A-Za-z\s]+,\s*[A-Za-z\s]+$
CityAndWords ==
  Re_Cat(<<Re_Bol, Re_Plus(Re_LetterOrSpace), Re_Lit(<<",">>), Re_Star(Re_Space),
           Re_Plus(Re_LetterOrSpace), Re_Eol>>)

\* \s*\|\s*$
BarAtEnd ==
  Re_Cat(<<Re_Star(Re_Space), Re_Lit(<<"|">>), Re_Star(Re_Space), Re_Eol>>)

\* /^[A-Za-z\s]+,\s*(?:...)$/i.test(t) || /^[A-Za-z\s]+,\s*[A-Za-z\s]+$/.test(t)
IsCityAndState(t) ==
  \/ Test(Re_Cat(<<Re_Bol, CityAndState, Re_Eol>>), t)
  \/ Test(CityAndWords, t)

LooksLikeLocation(s) == IsCityAndState(Trim(ReplaceReFirst(s, BarAtEnd, <<>>)))

\* \b(?:AWS|Python|React|Node|TypeScript|Go|Java|C#|SQL)\b with the i flag
TechWord ==
  Re_Cat(<<Re_WordEdge,
           Re_Alt(<<Re_LitI(<<"A","W","S">>), Re_LitI(<<"P","y","t","h","o","n">>), Re_LitI(<<"R","e","a","c","t">>),
                    Re_LitI(<<"N","o","d","e">>), Re_LitI(<<"T","y","p","e","S","c","r","i","p","t">>), Re_LitI(<<"G","o">>),
                    Re_LitI(<<"J","a","v","a">>), Re_LitI(<<"C","#">>), Re_LitI(<<"S","Q","L">>)>>),
           Re_WordEdge>>)

LooksLikeTechOrSkills(s) == Includes(s, <<",">>) \/ Test(TechWord, s)

\* s.slice(0, idx).trim() and s.slice(idx + 1).trim(), idx the first bar
LeftOfBar(s) == Trim(SubSeq(s, 1, IndexOf(s, <<"|">>) - 1))
RightOfBar(s) == Trim(SliceFrom(s, IndexOf(s, <<"|">>) + 1))

\* let skipCount = 0; if (lines[0] === firstLine.trim()) { skipCount = 1; ... }
SkipCount(lines, firstLine) ==
  IF lines[1] = Trim(firstLine)
  THEN (IF /\ Len(lines) > 1
           /\ Includes(lines[2], <<"|">>)
           /\ \/ LooksLikeTechOrSkills(RightOfBar(lines[2]))
              \/ Test(ROLE_KEYWORDS, LeftOfBar(lines[2]))
        THEN 2 ELSE 1)
  ELSE 0

WithoutHeaderLines(block, lines, firstLine) ==
  IF Len(lines) = 0 THEN block
  ELSE Join(SubSeq(lines, SkipCount(lines, firstLine) + 1, Len(lines)), <<"\n">>)

StripExperienceHeaderLines(block, firstLine) ==
  WithoutHeaderLines(block, TrimmedLines(block), firstLine)

\* one round of `for (const line of headerLines)` on the fields found so far
HeaderLineFields(f, line, dateMatch, left, right) ==
  IF dateMatch # None THEN [f EXCEPT !.dates = dateMatch]
  ELSE IF Includes(line, <<"|">>)
  THEN (IF Test(ROLE_KEYWORDS, left)
        THEN [f EXCEPT !.role = IF Truthy(f.role) THEN f.role ELSE Some(left),
                       !.location = IF LooksLikeLocation(right)
                                    THEN Some(right) ELSE f.location]
        ELSE IF LooksLikeLocation(left)
        THEN [f EXCEPT !.location = Some(left),
                       !.role = IF Test(ROLE_KEYWORDS, right)
                                THEN Some(right) ELSE f.role]
        ELSE IF LooksLikeLocation(right)
        THEN [f EXCEPT !.location = Some(right),
                       !.role = IF Len(left) > 0 /\ Len(left) < 60
                                THEN Some(left) ELSE f.role]
        ELSE IF LooksLikeTechOrSkills(right) /\ Test(ROLE_KEYWORDS, left)
        THEN [f EXCEPT !.role = Some(left), !.subheader = Some(right)]
        ELSE f)
  ELSE IF LooksLikeLocation(line) THEN [f EXCEPT !.location = Some(line)]
  ELSE IF Test(ROLE_KEYWORDS, line) /\ Len(line) < 60 /\ ~Truthy(f.role)
  THEN [f EXCEPT !.role = Some(line)]
  ELSE f

HeaderLineStep(f, line) ==
  HeaderLineFields(f, line, Match0(EXPERIENCE_DATE_REGEX, line),
                   LeftOfBar(line), RightOfBar(line))

RECURSIVE HeaderLines(_, _)
HeaderLines(f, lines) ==
  IF lines = <<>> THEN f
  ELSE HeaderLines(HeaderLineStep(f, Head(lines)), Tail(lines))

\* ^[A-Za-z\s]+,?\s*$ with the i flag
CityLine ==
  Re_Cat(<<Re_Bol, Re_Plus(Re_LetterOrSpace), Re_Opt(Re_Lit(<<",">>)),
           Re_Star(Re_Space), Re_Eol>>)

\* ^[A-Z]{2}$  and  ^(?:Washington|California)$ with the i flag
StateLine ==
  Re_Alt(<<Re_Cat(<<Re_Bol, Re_Times(Re_Set(UpperSet), 2), Re_Eol>>),
           Re_Cat(<<Re_Bol, Re_Alt(<<Re_LitI(<<"W","a","s","h","i","n","g","t","o","n">>),
                                     Re_LitI(<<"C","a","l","i","f","o","r","n","i","a">>)>>), Re_Eol>>)>>)

\* line.replace(/\s*,\s*$/, ", ").replace(/,?\s*$/, ", ") + next
CityCommaState(line, next) ==
  ReplaceReFirst(
    ReplaceReFirst(line, Re_Cat(<<Re_Star(Re_Space), Re_Lit(<<",">>),
                                  Re_Star(Re_Space), Re_Eol>>), <<","," ">>),
    Re_Cat(<<Re_Opt(Re_Lit(<<",">>)), Re_Star(Re_Space), Re_Eol>>), <<","," ">>) \o next

\* the location over two lines: lines[i] a city and lines[i + 1] a state
RECURSIVE LocationOnTwoLines(_, _)
RECURSIVE LocationOnLines(_, _, _, _)

LocationOnLines(lines, i, line, next) ==
  IF Test(CityLine, line) /\ Test(StateLine, next)
  THEN Some(CityCommaState(line, next))
  ELSE LocationOnTwoLines(lines, i + 1)

LocationOnTwoLines(lines, i) ==
  IF i + 1 > (IF Len(lines) < 6 THEN Len(lines) ELSE 6) THEN None
  ELSE LocationOnLines(lines, i, Trim(lines[i + 1]),
         ReplaceReAll(IF i + 2 <= Len(lines) THEN Trim(lines[i + 2]) ELSE <<>>,
                      Re_Plus(Re_Space), <<" ">>))

\* ([A-Za-z\s]+,\s*(?:[A-Z]{2}|Washington|California|NY|TX))(?:\s*[\n|]|$)
\* with the i and m flags, as the group and the part after it
LocationEnd ==
  Re_Alt(<<Re_Cat(<<Re_Star(Re_Space), Re_Set({"\n", "|"})>>), Re_EolM>>)

\* s.length < 50 ? s : undefined
Under50(s) == IF Len(s) < 50 THEN Some(s) ELSE None

\* two when it is a value, else other
FirstSome(two, other) == IF two # None THEN two ELSE other

\* if (!location && lines.length >= 2) { for (...) { ... location = ...; break } }
LocationOrTwoLines(location, lines) ==
  IF ~Truthy(location) /\ Len(lines) >= 2
  THEN FirstSome(LocationOnTwoLines(lines, 1), location)
  ELSE location

LocationOrMatch(location, locationInBlock) ==
  IF ~Truthy(location) /\ locationInBlock # None
  THEN Some(Trim(locationInBlock[1])) ELSE location

\* if (!location) { const headerPart = block.slice(0, 400); ... }
LocationOrInBlock(location, block) ==
  LocationOrMatch(location,
    GroupBefore(CityAndState, LocationEnd,
                SubSeq(block, 1, IF Len(block) < 400 THEN Len(block) ELSE 400)))

\* if (!dates && EXPERIENCE_DATE_REGEX.test(block)) dates = block.match(...)[0]
DatesOrInBlock(dates, block) ==
  IF ~Truthy(dates) /\ Test(EXPERIENCE_DATE_REGEX, block)
  THEN Match0(EXPERIENCE_DATE_REGEX, block) ELSE dates

\* entries.push({ company, role, location, dates, subheader, bullets })
EntryOfFields(block, lines, company, f) ==
  [company |-> company,
   role |-> OrUndefined(f.role),
   location |-> OrUndefined(LocationOrInBlock(LocationOrTwoLines(f.location, lines),
                                              block)),
   dates |-> OrUndefined(DatesOrInBlock(f.dates, block)),
   subheader |-> OrUndefined(f.subheader),
   bullets |-> Some(ExtractBullets(StripExperienceHeaderLines(block, lines[1])))]

\* the company and the location of the first part, then the header lines
EntryOfFirstPart(block, lines, firstPart, dates0, barred) ==
  EntryOfFields(block, lines,
    IF barred THEN Under50(LeftOfBar(firstPart)) ELSE Under50(firstPart),
    HeaderLines([dates |-> dates0, role |-> None,
                 location |-> IF barred THEN Some(RightOfBar(firstPart)) ELSE None,
                 subheader |-> None],
                SubSeq(lines, 2, IF Len(lines) < 6 THEN Len(lines) ELSE 6)))

EntryOfParts(block, lines, firstPart, datePartFromFirst) ==
  EntryOfFirstPart(block, lines, firstPart,
    IF Truthy(datePartFromFirst)
    THEN Match0(EXPERIENCE_DATE_REGEX, datePartFromFirst[1]) ELSE None,
    Includes(firstPart, <<"|">>) /\ LooksLikeLocation(RightOfBar(firstPart)))

EntryOfTabParts(block, lines, tabParts) ==
  EntryOfParts(block, lines, Trim(tabParts[1]),
               IF Len(tabParts) > 1 THEN Some(Trim(tabParts[2])) ELSE None)

\* the entry pushed for one job block whose first line is lines[0]
ExperienceEntryOf(block, lines) ==
  EntryOfTabParts(block, lines, SplitText(lines[1], <<"\t">>))

\* ^[A-Z\s]+$
CapitalsOnly == Re_Cat(<<Re_Bol, Re_Plus(Re_Set(UpperSet \cup SpaceChars)), Re_Eol>>)

\* if (lines.length === 0) continue; if (firstLine === ... ) continue
JobEntryOf(block, lines) ==
  IF \/ lines = <<>>
     \/ lines[1] = <<"W","O","R","K"," ","E","X","P","E","R","I","E","N","C","E">>
     \/ lines[1] = <<"E","X","P","E","R","I","E","N","C","E">>
     \/ Test(CapitalsOnly, lines[1])
  THEN <<>>
  ELSE <<ExperienceEntryOf(block, lines)>>

RECURSIVE JobEntries(_)
JobEntries(jobBlocks) ==
  IF jobBlocks = <<>> THEN <<>>
  ELSE JobEntryOf(Head(jobBlocks), TrimmedLines(Head(jobBlocks)))
         \o JobEntries(Tail(jobBlocks))

NonBlankBlocks(blocks) == SelectSeq(blocks, LAMBDA b : Trim(b) # <<>>)

\* if (jobBlocks.length <= 1) jobBlocks = normalized.split(EXPERIENCE_JOB_SPLIT)
JobBlocksOf(normalized, byTabDate) ==
  IF Len(byTabDate) <= 1
  THEN NonBlankBlocks(SplitRe(normalized, EXPERIENCE_JOB_SPLIT))
  ELSE byTabDate

\* if (entries.length === 0 && text.trim()) entries.push({ bullets })
JobsOrFallback(entries, text) ==
  IF Len(entries) = 0 /\ Trim(text) # <<>>
  THEN <<[EmptyExperience EXCEPT !.bullets = Some(FallbackBullets(text))]>>
  ELSE entries

BlocksOfNormalized(normalized) ==
  JobBlocksOf(normalized,
              NonBlankBlocks(SplitRe(normalized, EXPERIENCE_JOB_SPLIT_TAB_DATE)))

ParseExperienceBlock(text) ==
  JobsOrFallback(
    JobEntries(BlocksOfNormalized(
      ReplaceText(ReplaceText(text, <<"\r","\n">>, <<"\n">>), <<"\r">>, <<"\n">>))),
    text)

---------------------------------------------------------------------------
(* lib/resume-parser: splitBySectionHeaders and parseHtmlToResume *)

SECTION_NAMES ==
  <<<<"c","o","n","t","a","c","t">>, <<"e","d","u","c","a","t","i","o","n">>, <<"e","x","p","e","r","i","e","n","c","e">>, <<"p","r","o","f","e","s","s","i","o","n","a","l"," ","e","x","p","e","r","i","e","n","c","e">>,
    <<"w","o","r","k"," ","e","x","p","e","r","i","e","n","c","e">>, <<"p","r","o","j","e","c","t","s">>, <<"p","r","o","j","e","c","t","s"," ","&"," ","o","u","t","s","i","d","e"," ","e","x","p","e","r","i","e","n","c","e">>,
    <<"s","k","i","l","l","s">>, <<"t","e","c","h","n","i","c","a","l"," ","s","k","i","l","l","s">>>>

\* ^(EDUCATION|EXPERIENCE|PROFESSIONAL EXPERIENCE|WORK EXPERIENCE|PROJECTS|
\*   PROJECTS\s*&\s*OUTSIDE EXPERIENCE|SKILLS|TECHNICAL SKILLS|CONTACT)\s*$
\* with the i and m flags
SECTION_HEADER_REGEX ==
  Re_Cat(<<Re_BolM,
           Re_Alt(<<Re_LitI(<<"E","D","U","C","A","T","I","O","N">>), Re_LitI(<<"E","X","P","E","R","I","E","N","C","E">>),
                    Re_LitI(<<"P","R","O","F","E","S","S","I","O","N","A","L"," ","E","X","P","E","R","I","E","N","C","E">>),
                    Re_LitI(<<"W","O","R","K"," ","E","X","P","E","R","I","E","N","C","E">>), Re_LitI(<<"P","R","O","J","E","C","T","S">>),
                    Re_Cat(<<Re_LitI(<<"P","R","O","J","E","C","T","S">>), Re_Star(Re_Space),
                             Re_Lit(<<"&">>), Re_Star(Re_Space),
                             Re_LitI(<<"O","U","T","S","I","D","E"," ","E","X","P","E","R","I","E","N","C","E">>)>>),
                    Re_LitI(<<"S","K","I","L","L","S">>), Re_LitI(<<"T","E","C","H","N","I","C","A","L"," ","S","K","I","L","L","S">>),
                    Re_LitI(<<"C","O","N","T","A","C","T">>)>>),
           Re_Star(Re_Space), Re_EolM>>)

Section(title, content) == [title |-> title, content |-> content]

\* one round of a loop that gathers sections: whether it starts a section,
\* the title it sets, and the texts it pushes on currentContent
Round(header, title, texts) == [header |-> header, title |-> title, texts |-> texts]

\* the texts pushed in the rounds ks
TextsOf(rounds, ks) == Listed([n \in 1..Len(ks) |-> rounds[ks[n]].texts[1]])

\* currentContent.join("\n").trim(), currentContent being what the rounds
\* from `from` to `to` pushed
ContentOf(rounds, from, to) ==
  Trim(Join(TextsOf(rounds, SelectSeq(Positions(from, to),
                                      LAMBDA k : rounds[k].texts # <<>>)),
            <<"\n">>))

\* the section of the j-th round that starts one: its content is gathered
\* up to the next round that starts a section, or up to the last round
SectionOfHeader(rounds, headers, j) ==
  Section(rounds[headers[j]].title,
          ContentOf(rounds, headers[j],
                    IF j < Len(headers) THEN headers[j + 1] - 1 ELSE Len(rounds)))

\* if (currentTitle) sections.push({ title: currentTitle, content }), at each
\* round that starts a section and after the last round: what was gathered
\* under an empty title is never pushed
GatheredFrom(rounds, headers) ==
  SelectSeq(Listed([j \in 1..Len(headers) |-> SectionOfHeader(rounds, headers, j)]),
            LAMBDA section : section.title # <<>>)

Gathered(rounds) ==
  GatheredFrom(rounds, SelectSeq(Positions(1, Len(rounds)),
                                 LAMBDA k : rounds[k].header))

\* one round of `for (const line of lines)`, trimmed being line.trim()
HeaderLineRound(line, trimmed) ==
  IF Test(SECTION_HEADER_REGEX, trimmed)
  THEN Round(TRUE, trimmed, <<>>)
  ELSE Round(FALSE, <<>>, <<line>>)

HeaderLineRounds(lines) ==
  Listed([k \in 1..Len(lines) |-> HeaderLineRound(lines[k], Trim(lines[k]))])

SplitBySectionHeaders(fullText) ==
  Gathered(HeaderLineRounds(SplitText(fullText, <<"\n">>)))

\* <(?:h[1-3]|p)[^>]*> with the i flag
BlockTag ==
  Re_Cat(<<Re_Lit(<<"<">>),
           Re_Alt(<<Re_Cat(<<Re_LitI(<<"h">>), Re_Set({"1", "2", "3"})>>),
                    Re_LitI(<<"p">>)>>),
           Re_Star(Re_Not({">"})), Re_Lit(<<">">>)>>)

\* ^<(?:h[1-3]|p)[^>]*>([^<]*)<\/ with the i flag, as the part before the
\* group, the group, and the part after it
TitleOpen == Re_Cat(<<Re_Bol, BlockTag>>)
TitleText == Re_Star(Re_Not({"<"}))
TitleClose == Re_Lit(<<"<","/">>)
SectionTitleRegex == Re_Cat(<<TitleOpen, TitleText, TitleClose>>)

\* ^[A-Z\s&]+$ with the i flag
LettersAndAmpersand ==
  Re_Cat(<<Re_Bol, Re_Plus(Re_Set(LetterChars \cup SpaceChars \cup {"&"})), Re_Eol>>)

\* SECTION_NAMES.some((s) => key.includes(s))
NamesSection(key) == \E k \in 1..Len(SECTION_NAMES) : Includes(key, SECTION_NAMES[k])

LooksLikeHeader(possibleTitle) ==
  /\ Len(possibleTitle) < 80
  /\ \/ NamesSection(NormalizeSectionTitle(possibleTitle))
     \/ Test(LettersAndAmpersand, ReplaceReAll(possibleTitle, Re_Space, <<>>))

\* one round of `for (const block of blocks)` of the markup-heading
\* strategy, titleMatch being block.match(sectionTitleRegex)[1] and
\* possibleTitle being stripHtml(titleMatch[1]).trim()
BlockRound(block, titleMatch, possibleTitle) ==
  IF titleMatch # None /\ LooksLikeHeader(possibleTitle)
  THEN Round(TRUE, possibleTitle,
             <<StripHtml(ReplaceReFirst(block, SectionTitleRegex, <<>>))>>)
  ELSE Round(FALSE, <<>>, <<StripHtml(block)>>)

TitleMatchOf(block) ==
  GroupAfter(TitleOpen, Re_Cat(<<TitleText, Re_Look(TitleClose)>>), block)

PossibleTitleOf(titleMatch) ==
  IF titleMatch = None THEN <<>> ELSE Trim(StripHtml(titleMatch[1]))

BlockTitleRound(block, titleMatch) ==
  BlockRound(block, titleMatch, PossibleTitleOf(titleMatch))

BlockRounds(blocks) ==
  Listed([k \in 1..Len(blocks) |-> BlockTitleRound(blocks[k], TitleMatchOf(blocks[k]))])

\* html.split(/(?=<(?:h[1-3]|p)[^>]*>)/gi).filter(Boolean)
HtmlBlocks(html) ==
  SelectSeq(SplitRe(html, Re_Look(BlockTag)), LAMBDA b : b # <<>>)

MarkupSections(html) == Gathered(BlockRounds(HtmlBlocks(html)))

\* resume.otherSections[title] = content
RECURSIVE SetOther(_, _, _)
SetOther(others, title, content) ==
  IF others = <<>> THEN <<Section(title, content)>>
  ELSE IF Head(others).title = title
       THEN <<Section(title, content)>> \o Tail(others)
       ELSE <<Head(others)>> \o SetOther(Tail(others), title, content)

OtherSectionsOf(r) == IF r.otherSections = None THEN <<>> ELSE r.otherSections[1]

IsExperienceKey(key) ==
  \/ Includes(key, <<"e","x","p","e","r","i","e","n","c","e">>)
  \/ Includes(key, <<"p","r","o","f","e","s","s","i","o","n","a","l">>)
  \/ Includes(key, <<"w","o","r","k">>)

\* lines.slice(0, n)
FirstN(lines, n) == SubSeq(lines, 1, IF Len(lines) < n THEN Len(lines) ELSE n)

\* fullText.split(/\n/).slice(0, n).join("\n")
TopLines(fullText, n) == Join(FirstN(SplitText(fullText, <<"\n">>), n), <<"\n">>)

HasNameOrEmail(contact) == Truthy(contact.name) \/ Truthy(contact.email)

\* the run so far: the resume and the steps taken on it
Run(r, steps) == [resume |-> r, steps |-> steps]

\* const resume = { contact: {}, education: [], ..., otherSections: {} }
InitialResume == [MinimalResume EXCEPT !.otherSections = Some(<<>>)]

\* one round of the loop over byHeaders when the markup gave no section
HeadersOnlyOn(r, key, s) ==
  IF Includes(key, <<"e","d","u","c","a","t","i","o","n">>)
  THEN [r EXCEPT !.education = ParseEducationBlock(s.content)]
  ELSE IF IsExperienceKey(key)
  THEN [r EXCEPT !.experience = ParseExperienceBlock(s.content)]
  ELSE IF Includes(key, <<"p","r","o","j","e","c","t">>)
  THEN [r EXCEPT !.projects = ParseProjectsBlock(s.content)]
  ELSE IF Includes(key, <<"s","k","i","l","l">>)
  THEN [r EXCEPT !.skills = ParseSkillsBlock(s.content)]
  ELSE IF Includes(key, <<"c","o","n","t","a","c","t">>) \/ key = <<>>
  THEN [r EXCEPT !.contact = ParseContactBlock(s.content)]
  ELSE [r EXCEPT !.otherSections =
                   Some(SetOther(OtherSectionsOf(r), s.title, s.content))]

HeadersOnlyStep(r, s) == HeadersOnlyOn(r, NormalizeSectionTitle(s.title), s)

RECURSIVE HeadersOnlyLoop(_, _)
HeadersOnlyLoop(r, sections) ==
  IF sections = <<>> THEN r
  ELSE HeadersOnlyLoop(HeadersOnlyStep(r, Head(sections)), Tail(sections))

\* if (content.trim().length > 0 && !resume.contact.name) { ... }
NamedByFirstLine(found, content, firstLine) ==
  IF /\ Trim(content) # <<>>
     /\ ~Truthy(found.name)
     /\ firstLine # <<>>
     /\ Len(firstLine) < 80
  THEN [found EXCEPT !.name = Some(firstLine)] ELSE found

\* one round of `for (const { title, content } of sections)`
MarkupOn(r, key, s) ==
  IF Includes(key, <<"c","o","n","t","a","c","t">>) \/ Includes(key, <<"n","a","m","e">>) \/ key = <<>>
  THEN [r EXCEPT !.contact =
          NamedByFirstLine(SpreadContact(r.contact, ParseContactBlock(s.content)),
                           s.content, Trim(SplitText(s.content, <<"\n">>)[1]))]
  ELSE IF Includes(key, <<"e","d","u","c","a","t","i","o","n">>)
  THEN [r EXCEPT !.education = ParseEducationBlock(s.content)]
  ELSE IF IsExperienceKey(key)
  THEN [r EXCEPT !.experience = ParseExperienceBlock(s.content)]
  ELSE IF Includes(key, <<"p","r","o","j","e","c","t">>)
  THEN [r EXCEPT !.projects = ParseProjectsBlock(s.content)]
  ELSE IF Includes(key, <<"s","k","i","l","l">>)
  THEN [r EXCEPT !.skills = ParseSkillsBlock(s.content)]
  ELSE [r EXCEPT !.otherSections =
                   Some(SetOther(OtherSectionsOf(r), s.title, s.content))]

MarkupStep(r, s) == MarkupOn(r, NormalizeSectionTitle(s.title), s)

RECURSIVE MarkupLoop(_, _)
MarkupLoop(r, sections) ==
  IF sections = <<>> THEN r
  ELSE MarkupLoop(MarkupStep(r, Head(sections)), Tail(sections))

\* the step taken on a section by the backfill pass
Assigned(section, r, to) ==
  [op |-> "backfill", section |-> section, before |-> r[section], after |-> to]

\* resume[section] = to, as a step of the run
Assign(run, section, to) ==
  Run([run.resume EXCEPT ![section] = to],
      Append(run.steps, Assigned(section, run.resume, to)))

\* one round of the backfill loop that assigns whatever the header names
BackfillOnUnguarded(run, key, s) ==
  IF Includes(key, <<"e","d","u","c","a","t","i","o","n">>)
  THEN Assign(run, "education", ParseEducationBlock(s.content))
  ELSE IF IsExperienceKey(key)
  THEN Assign(run, "experience", ParseExperienceBlock(s.content))
  ELSE IF Includes(key, <<"p","r","o","j","e","c","t">>)
  THEN Assign(run, "projects", ParseProjectsBlock(s.content))
  ELSE IF Includes(key, <<"s","k","i","l","l">>)
  THEN Assign(run, "skills", ParseSkillsBlock(s.content))
  ELSE IF (key = <<>> \/ Includes(key, <<"c","o","n","t","a","c","t">>))
          /\ ~Truthy(run.resume.contact.email)
  THEN Assign(run, "contact",
              SpreadContact(run.resume.contact, ParseContactBlock(s.content)))
  ELSE run

\* one round of `for (const { title, content } of byHeaders)` of the backfill
BackfillOn(run, key, s) ==
  IF Includes(key, <<"e","d","u","c","a","t","i","o","n">>) /\ Len(run.resume.education) = 0
  THEN Assign(run, "education", ParseEducationBlock(s.content))
  ELSE IF IsExperienceKey(key) /\ Len(run.resume.experience) = 0
  THEN Assign(run, "experience", ParseExperienceBlock(s.content))
  ELSE IF Includes(key, <<"p","r","o","j","e","c","t">>) /\ Len(run.resume.projects) = 0
  THEN Assign(run, "projects", ParseProjectsBlock(s.content))
  ELSE IF Includes(key, <<"s","k","i","l","l">>) /\ Len(run.resume.skills) = 0
  THEN Assign(run, "skills", ParseSkillsBlock(s.content))
  ELSE IF (key = <<>> \/ Includes(key, <<"c","o","n","t","a","c","t">>))
          /\ ~Truthy(run.resume.contact.email)
  THEN Assign(run, "contact",
              SpreadContact(run.resume.contact, ParseContactBlock(s.content)))
  ELSE run

BackfillStep(run, s) == BackfillOn(run, NormalizeSectionTitle(s.title), s)

RECURSIVE BackfillLoop(_, _)
BackfillLoop(run, sections) ==
  IF sections = <<>> THEN run
  ELSE BackfillLoop(BackfillStep(run, Head(sections)), Tail(sections))

\* the contact as the segmentation passes left it, then the extractor on the
\* first n lines of the plain text
Passes(r) == [op |-> "passes", contact |-> r.contact]
ReDerived(n, found) == [op |-> "topLines", lines |-> n, found |-> found]

\* resume.contact = parseContactBlock(topLines), of the first 6 lines
ReplacedByTop(r, top6) ==
  Run([r EXCEPT !.contact = top6], <<Passes(r), ReDerived(6, top6)>>)

\* if (!resume.contact.name && !resume.contact.email) resume.contact = ...
TopSixIfNoContact(only, fullText) ==
  IF ~HasNameOrEmail(only.contact)
  THEN ReplacedByTop(only, ParseContactBlock(TopLines(fullText, 6)))
  ELSE Run(only, <<Passes(only)>>)

\* resume.contact = parseContactBlock(...); resume.otherSections = { "Full text" }
FullTextOnly(fullText) ==
  ReplacedByTop([InitialResume EXCEPT
                   !.otherSections = Some(<<Section(<<"F","u","l","l"," ","t","e","x","t">>, fullText)>>)],
                ParseContactBlock(TopLines(fullText, 6)))

\* if (sections.length === 0) { const byHeaders = ...; ... return resume }
RunOfHeaders(fullText, byHeaders) ==
  IF Len(byHeaders) > 0
  THEN TopSixIfNoContact(HeadersOnlyLoop(InitialResume, byHeaders), fullText)
  ELSE FullTextOnly(fullText)

\* resume.contact = { ...resume.contact, ...parseContactBlock(topLines) }
MergedWithTop(filled, top8) ==
  Run([filled.resume EXCEPT !.contact = SpreadContact(filled.resume.contact, top8)],
      filled.steps \o <<Passes(filled.resume), ReDerived(8, top8)>>)

\* if (!resume.contact.name && !resume.contact.email) { ... 8 lines ... }
TopEightIfNoContact(filled, fullText) ==
  IF ~HasNameOrEmail(filled.resume.contact)
  THEN MergedWithTop(filled, ParseContactBlock(TopLines(fullText, 8)))
  ELSE Run(filled.resume, Append(filled.steps, Passes(filled.resume)))

MissingStructured(r) ==
  Len(r.education) = 0 \/ Len(r.experience) = 0 \/ Len(r.skills) = 0

\* if (missingStructured) { backfill; contact from the top lines } return resume
RunOfMarkup(fullText, first) ==
  IF MissingStructured(first)
  THEN TopEightIfNoContact(
         BackfillLoop(Run(first, <<[op |-> "markup", resume |-> first]>>),
                      SplitBySectionHeaders(fullText)),
         fullText)
  ELSE Run(first, <<[op |-> "markup", resume |-> first], Passes(first)>>)

RunOfSections(fullText, sections) ==
  IF Len(sections) = 0
  THEN RunOfHeaders(fullText, SplitBySectionHeaders(fullText))
  ELSE RunOfMarkup(fullText, MarkupLoop(InitialResume, sections))

\* parseHtmlToResume, as the resume it returns and the steps it took
ParseRun(html) == RunOfSections(StripHtml(html), MarkupSections(html))

ParseHtmlToResume(html) == ParseRun(html).resume

---------------------------------------------------------------------------
(* The parser on small converted documents: an optional first paragraph,   *)
(* then sections, each a heading paragraph followed by one paragraph       *)

MaxSections == 3

Paragraph(text) == <<"<","p",">">> \o text \o <<"<","/","p",">">>
BoldParagraph(text) == <<"<","p",">","<","s","t","r","o","n","g",">">> \o text \o <<"<","/","s","t","r","o","n","g",">","<","/","p",">">>

T_Education == <<"E","D","U","C","A","T","I","O","N">>
T_Experience == <<"E","X","P","E","R","I","E","N","C","E">>
T_Skills == <<"S","K","I","L","L","S">>
T_Projects == <<"P","R","O","J","E","C","T","S">>
W_Email == <<"a","@","b",".","c","o">>
W_Mit == <<"M","I","T"," ","2","0","2","0">>
W_Foo == <<"F","o","o"," ","I","n","c",".">>
W_GoC == <<"G","o",","," ","C">>
W_App == <<"A","p","p"," ","1">>

TopParagraphs == { <<>>, Paragraph(W_Email) }

HtmlSections ==
  { Paragraph(T_Education) \o Paragraph(W_Mit),
    Paragraph(T_Experience) \o Paragraph(W_Foo),
    Paragraph(T_Skills) \o Paragraph(W_GoC),
    BoldParagraph(T_Skills) \o Paragraph(W_GoC),
    BoldParagraph(T_Projects) \o Paragraph(W_App) }

\* the sequences of at most n different elements of S
DistinctSeqsUpTo(S, n) ==
  { ss \in SeqsUpTo(S, n) : \A i, j \in 1..Len(ss) : ss[i] = ss[j] => i = j }

HtmlDocs ==
  { top \o FlatConcat(ss) :
      top \in TopParagraphs, ss \in DistinctSeqsUpTo(HtmlSections, MaxSections) }

InitParse ==
  /\ pc = "ready"
  /\ docXml \in HtmlDocs
  /\ resume = MinimalResume
  /\ rows = <<>>
  /\ log = <<>>
  /\ files = <<>>
  /\ optimized = None
  /\ docHistory = <<>>
  /\ jobDescription = <<>>
  /\ keywordList = <<>>
  /\ response = EmptyResponse
  /\ payload = <<>>
  /\ merged = MinimalResume

\* parseHtmlToResume(result.value)
ParseHtml ==
  /\ pc = "ready"
  /\ \E run \in {ParseRun(docXml)} :
       /\ resume' = run.resume
       /\ log' = run.steps
  /\ pc' = "parseHtmlToResume"
  /\ UNCHANGED <<optimized, jobDescription, keywordList, response, payload,
                 merged, docXml, docHistory, rows, files>>

NextParse == ParseHtml

SpecParse == InitParse /\ [][NextParse]_vars

StructuredSections == {"education", "experience", "projects", "skills"}

\* the resume as the markup-heading strategy left it
AfterMarkup(steps) == steps[1].resume

\* C19: once the markup-heading strategy has produced sections, the backfill
\* pass assigns education, experience, projects or skills only when that
\* section is empty at that moment, and a section that holds data after the
\* markup-heading strategy is the same in the result.
C19_BackfillKeepsData ==
  (pc = "parseHtmlToResume" /\ log[1].op = "markup")
    => /\ \A n \in 1..Len(log) :
            (log[n].op = "backfill" /\ log[n].section \in StructuredSections)
              => log[n].before = <<>>
       /\ \A section \in StructuredSections :
            AfterMarkup(log)[section] # <<>>
              => resume[section] = AfterMarkup(log)[section]

C19_Witness ==
  /\ pc = "parseHtmlToResume"
  /\ docXml = Paragraph(T_Education) \o Paragraph(W_Mit)
                \o BoldParagraph(T_Skills) \o Paragraph(W_GoC)
  /\ log[1].op = "markup"
  /\ Len(AfterMarkup(log).education) = 1
  /\ AfterMarkup(log).skills = <<>>
  /\ \E n \in 1..Len(log) : log[n].op = "backfill" /\ log[n].section = "skills"
  /\ resume.skills = <<<<"G","o">>, <<"C">>>>
  /\ resume.education = AfterMarkup(log).education

\* the step that records the contact as the segmentation passes left it
PassesSteps(steps) == SelectSeq(steps, LAMBDA st : st.op = "passes")

\* the contact extractor ran on the first lines of the plain text
ReDerivedFromTop(steps) ==
  \E n \in 1..Len(steps) : steps[n].op = "topLines" /\ steps[n].lines \in 6..8

\* C20: on every path through parseHtmlToResume, when the contact has neither
\* a name nor an email after all segmentation passes, the contact extractor is
\* run on the first 6 to 8 lines of the plain text.
C20_ContactReDerived ==
  (pc = "parseHtmlToResume" /\ ~HasNameOrEmail(PassesSteps(log)[1].contact))
    => ReDerivedFromTop(log)
---------------------------------------------------------------------------
(* stripHtml on short texts, applied to a text and then to its own output  *)

MaxStripPieces == 2

StripPieces ==
  { <<"a">>, <<" ">>, <<"<","b",">">>, <<"<","/","p",">">>, <<"&","l","t",";">>, <<"&","g","t",";">>, <<"&","a","m","p",";">>, <<"l","t",";">>,
    <<"b",">">> }

StripTexts == { FlatConcat(ps) : ps \in SeqsUpTo(StripPieces, MaxStripPieces) }

InitStrip ==
  /\ pc = "ready"
  /\ IdleStore
  /\ docXml \in StripTexts
  /\ resume = MinimalResume
  /\ optimized = None
  /\ docHistory = <<>>
  /\ jobDescription = <<>>
  /\ keywordList = <<>>
  /\ response = EmptyResponse
  /\ payload = <<>>
  /\ merged = MinimalResume

\* stripHtml(html), on the text and then on what the last call returned
Strip ==
  /\ Len(docHistory) < 2
  /\ docHistory' =
       Append(docHistory,
              StripHtml(IF docHistory = <<>> THEN docXml
                        ELSE docHistory[Len(docHistory)]))
  /\ pc' = "stripHtml"
  /\ UNCHANGED <<resume, optimized, jobDescription, keywordList, response,
                 payload, merged, docXml, rows, log, files>>

NextStrip == Strip

SpecStrip == InitStrip /\ [][NextStrip]_vars

\* &nbsp; &amp; &lt; &gt;
Entities == { <<"&","n","b","s","p",";">>, <<"&","a","m","p",";">>, <<"&","l","t",";">>, <<"&","g","t",";">> }

\* the text holds no tag and none of the four entities
PlainText(text) ==
  /\ ~Test(AnyTag, text)
  /\ \A e \in Entities : ~Includes(text, e)

\* C21: stripHtml returns a text without tags and without the four entities
\* unchanged, and for every text stripHtml applied to its own output returns
\* that output.
C21_StripHtmlIdempotent ==
  /\ (Len(docHistory) >= 1 /\ PlainText(docXml)) => docHistory[1] = docXml
  /\ Len(docHistory) = 2 => docHistory[2] = docHistory[1]

---------------------------------------------------------------------------
(* extractBullets on texts of a few lines                                  *)

MaxBulletLines == 2

BulletLines ==
  { <<"-"," ","a">>, <<"*"," ","b">>, <<"u2022", " ", "c">>, <<"1","."," ","d">>, <<"1","2","."," ","e">>, <<"4","0","%"," ","f">>,
    <<"g">>, <<"-">> }

BulletTexts ==
  { Join(ls, <<"\n">>) : ls \in SeqsUpTo(BulletLines, MaxBulletLines) }

InitBullets ==
  /\ pc = "ready"
  /\ IdleStore
  /\ docXml \in BulletTexts
  /\ resume = MinimalResume
  /\ optimized = None
  /\ docHistory = <<>>
  /\ jobDescription = <<>>
  /\ keywordList = <<>>
  /\ response = EmptyResponse
  /\ payload = <<>>
  /\ merged = MinimalResume

\* const bullets = extractBullets(text)
Extract ==
  /\ pc = "ready"
  /\ keywordList' = ExtractBullets(docXml)
  /\ pc' = "extractBullets"
  /\ UNCHANGED <<resume, optimized, jobDescription, response, payload, merged,
                 docXml, docHistory, rows, log, files>>

NextBullets == Extract

SpecBullets == InitBullets /\ [][NextBullets]_vars

\* a leading bullet glyph or a list numbering such as "1.", with the
\* whitespace after it
LeadingMarker ==
  Re_Cat(<<Re_Bol,
           Re_Alt(<<Re_Set({"u2022", "u2023", "u25E6", "u2043", "u2219", "-", "*"}),
                    Re_Cat(<<Re_Plus(Re_Digit), Re_Lit(<<".">>)>>)>>),
           Re_Star(Re_Space)>>)

WithoutMarkers(lines) ==
  Listed([k \in 1..Len(lines) |->
            Trim(ReplaceReFirst(lines[k], LeadingMarker, <<>>))])

\* C22: every bullet of extractBullets is its trimmed line without a leading
\* bullet glyph or list numbering: the numbering goes completely, a line that
\* only starts with a digit keeps all its characters; when no line gives a
\* non-empty bullet, the non-empty lines are the bullets.
C22_BulletsStripped ==
  pc = "extractBullets"
    => keywordList =
         BulletsOrLines(NonEmptyOnes(WithoutMarkers(TrimmedLines(docXml))),
                        TrimmedLines(docXml))

---------------------------------------------------------------------------
(* parseExperienceBlock on one job block: a header line, a few lines under *)
(* it and the bullets                                                      *)

MaxHeaderLines == 2

W_Range2020 == <<"J","a","n"," ","2","0","2","0"," ","-"," ","P","r","e","s","e","n","t">>
W_Range2021 == <<"F","e","b"," ","2","0","2","1"," ","-"," ","M","a","r"," ","2","0","2","2">>
W_Engineer == <<"S","o","f","t","w","a","r","e"," ","E","n","g","i","n","e","e","r">>

ExperienceHeaders ==
  { <<"F","o","o"," ","I","n","c",".">>, <<"F","o","o"," ","|"," ","S","e","a","t","t","l","e",","," ","W","A">>, <<"F","o","o","\t">> \o W_Range2020 }

LinesUnderHeader ==
  { W_Engineer, <<"E","n","g","i","n","e","e","r"," ","|"," ","G","o",","," ","C">>, W_Range2021, <<"S","e","a","t","t","l","e",","," ","W","A">> }

ExperienceBullets == { <<>>, <<<<"-"," ","b","u","i","l","t"," ","x">>>>, <<<<"-"," ","b","u","i","l","t"," ","x">>, <<"*"," ","l","e","d"," ","y">>>> }

ExperienceBlocks ==
  { Join(<<header>> \o under \o bullets, <<"\n">>) :
      header \in ExperienceHeaders,
      under \in SeqsUpTo(LinesUnderHeader, MaxHeaderLines),
      bullets \in ExperienceBullets }

InitExperience ==
  /\ pc = "ready"
  /\ IdleStore
  /\ docXml \in ExperienceBlocks
  /\ resume = MinimalResume
  /\ optimized = None
  /\ docHistory = <<>>
  /\ jobDescription = <<>>
  /\ keywordList = <<>>
  /\ response = EmptyResponse
  /\ payload = <<>>
  /\ merged = MinimalResume

\* resume.experience = parseExperienceBlock(content)
ParseExperience ==
  /\ pc = "ready"
  /\ resume' = [resume EXCEPT !.experience = ParseExperienceBlock(docXml)]
  /\ pc' = "parseExperienceBlock"
  /\ UNCHANGED <<optimized, jobDescription, keywordList, response, payload,
                 merged, docXml, docHistory, rows, log, files>>

NextExperience == ParseExperience

SpecExperience == InitExperience /\ [][NextExperience]_vars

\* the entry's role was read from this line: the whole line, or one side of
\* its bar
RoleTakenFrom(line, entry) ==
  /\ Truthy(entry.role)
  /\ \/ entry.role = Some(line)
     \/ /\ Includes(line, <<"|">>)
        /\ entry.role \in {Some(LeftOfBar(line)), Some(RightOfBar(line))}

\* C23: the header line of an experience block and, when a role or
\* role/subheader line was detected for the entry, that line too are not
\* among the entry's bullets.
C23_HeaderLinesNotBullets ==
  pc = "parseExperienceBlock"
    => \A n \in 1..Len(resume.experience) :
         /\ TrimmedLines(docXml)[1] \notin Range(BulletsOf(resume.experience[n]))
         /\ \A k \in 2..Len(TrimmedLines(docXml)) :
              RoleTakenFrom(TrimmedLines(docXml)[k], resume.experience[n])
                => TrimmedLines(docXml)[k]
                     \notin Range(BulletsOf(resume.experience[n]))

\* firstLine.split(/\t/)[1]?.trim(), when the date-range pattern matches it
DatePartFromFirst(block) ==
  IF Len(SplitText(TrimmedLines(block)[1], <<"\t">>)) > 1
  THEN Match0(EXPERIENCE_DATE_REGEX,
              Trim(SplitText(TrimmedLines(block)[1], <<"\t">>)[2]))
  ELSE None

\* C24: when the part of the header line after the tab matches the date-range
\* pattern it is the entry's dates; a date range in one of the next lines sets
\* dates only when dates is still unset and never replaces the header's.
C24_HeaderDatesKept ==
  (pc = "parseExperienceBlock" /\ DatePartFromFirst(docXml) # None)
    => \A n \in 1..Len(resume.experience) :
         resume.experience[n].dates = DatePartFromFirst(docXml)
---------------------------------------------------------------------------
(* The parser on documents that try a first paragraph as a heading, and on *)
(* documents with a "PROJECTS & OUTSIDE EXPERIENCE" section                *)

MaxTitleWords == 2

\* possibleTitle.length < 80
TITLE_LIMIT == 80

W_Long == [k \in 1..TITLE_LIMIT |-> "A"]

TitleWords ==
  { <<"S","K","I","L","L","S">>, <<"s","k","i","l","l","s">>, <<"J","o","h","n">>, <<"J","O","H","N">>, <<"&","a","m","p",";">>, <<"x","1">>, W_Long }

HeadingTitles ==
  { Join(ws, <<" ">>) : ws \in SeqsUpTo(TitleWords, MaxTitleWords) }

\* a candidate heading and one paragraph under it
HeadingDoc(title) == Paragraph(title) \o Paragraph(W_Email)

HeadingDocs == { HeadingDoc(title) : title \in HeadingTitles }

T_Outside == <<"P","R","O","J","E","C","T","S"," ","&","a","m","p",";"," ","O","U","T","S","I","D","E"," ","E","X","P","E","R","I","E","N","C","E">>

RoutedSections ==
  { Paragraph(T_Experience) \o Paragraph(W_Foo),
    Paragraph(T_Skills) \o Paragraph(W_GoC),
    Paragraph(T_Education) \o Paragraph(W_Mit),
    Paragraph(T_Outside) \o Paragraph(W_App),
    BoldParagraph(T_Outside) \o Paragraph(W_App) }

RoutedDocs ==
  { top \o FlatConcat(ss) :
      top \in TopParagraphs, ss \in DistinctSeqsUpTo(RoutedSections, MaxSections) }

InitSections ==
  /\ pc = "ready"
  /\ docXml \in HeadingDocs \cup RoutedDocs
  /\ resume = MinimalResume
  /\ rows = <<>>
  /\ log = <<>>
  /\ files = <<>>
  /\ optimized = None
  /\ docHistory = <<>>
  /\ jobDescription = <<>>
  /\ keywordList = <<>>
  /\ response = EmptyResponse
  /\ payload = <<>>
  /\ merged = MinimalResume

SpecSections == InitSections /\ [][NextParse]_vars

\* the inner text of the document's first paragraph, entities decoded
FirstTitleOf(doc) ==
  Trim(StripHtml(SubSeq(doc, 4, IndexOf(doc, <<"<","/","p",">">>) - 1)))

\* the title is one of the known section names once lower-cased and its
\* whitespace collapsed
InVocabulary(title) ==
  \E k \in 1..Len(SECTION_NAMES) : NormalizeSectionTitle(title) = SECTION_NAMES[k]

\* only uppercase letters, spaces and ampersands
UppercaseTitle(title) ==
  /\ title # <<>>
  /\ \A k \in 1..Len(title) : title[k] \in UpperSet \cup SpaceChars \cup {"&"}

\* the first paragraph was taken as a section header
FirstBlockAccepted(steps) == steps[1].op = "markup"

\* C25: a block's inner text is accepted as a section header exactly when it
\* is shorter than 80 characters and either is a known section name after
\* lower-casing and whitespace normalisation or consists of uppercase letters,
\* spaces and ampersands only.
C25_HeadingAcceptance ==
  (pc = "parseHtmlToResume" /\ docXml \in HeadingDocs)
    => (FirstBlockAccepted(log)
          <=> /\ Len(FirstTitleOf(docXml)) < TITLE_LIMIT
              /\ \/ InVocabulary(FirstTitleOf(docXml))
                 \/ UppercaseTitle(FirstTitleOf(docXml)))

\* what the section under the heading holds: under a heading the markup
\* strategy accepted, and under a heading line of the plain text
OutsideContents == { <<"p",">","\n","A","p","p"," ","1">>, W_App }

\* C26: a section titled "PROJECTS & OUTSIDE EXPERIENCE" is parsed by the
\* projects extractor into resume.projects and does not replace
\* resume.experience, under the markup-heading strategy, the heading-line
\* strategy and the backfill.
C26_OutsideRoutedToProjects ==
  (pc = "parseHtmlToResume" /\ Includes(docXml, T_Outside))
    => /\ resume.projects \in { ParseProjectsBlock(c) : c \in OutsideContents }
       /\ resume.experience \notin { ParseExperienceBlock(c) : c \in OutsideContents }

---------------------------------------------------------------------------
(* The requests on one stored resume: upload, PUT /api/resume, optimize, *)
(* whose handler waits for the model between its read and its write,     *)
(* and export                                                            *)

MaxSessionRequests == 4

\* the resumes a client uploads or saves: told apart by name and skills
SessionResumes ==
  { [MinimalResume EXCEPT !.contact.name = Some(<<"N">>), !.skills = <<W_Go>>],
    [MinimalResume EXCEPT !.contact.name = Some(<<"M">>), !.skills = <<W_Golang>>] }

\* what the model answers: a throw, an object without sections, new skills
SessionReplies ==
  { ReplyThrows, ReplyContent(Some(R_object)), ReplyContent(Some(R_sections)) }

\* an entry of the log: the response of a request, with the parsed resume
\* the request stored or read and the reply of the model it used
SessionEntry(op, status, parsed, body, reply) ==
  [op |-> op, status |-> status, parsed |-> parsed, body |-> body, reply |-> reply]

InitSession ==
  /\ pc = "ready"
  /\ IdleStore
  /\ resume = MinimalResume
  /\ optimized = None
  /\ jobDescription = <<>>
  /\ keywordList = <<>>
  /\ response = EmptyResponse
  /\ payload = <<>>
  /\ merged = MinimalResume
  /\ docXml = <<>>
  /\ docHistory = <<>>

\* POST /api/upload of a resume without a phone: the id is the default one
SessionUpload ==
  /\ Len(log) < MaxSessionRequests
  /\ \E parsed \in SessionResumes :
       /\ rows' = SaveResume(rows, ResumeIdFromPhone(JsUndefined), parsed, Len(log) + 1)
       /\ log' = Append(log, SessionEntry("upload", 200, parsed, None, None))
  /\ UNCHANGED <<pc, resume, optimized, jobDescription, keywordList, response,
                 payload, merged, docXml, docHistory, files>>

\* PUT /api/resume: saveResume with the file path of the existing row
\* (0 stands for the undefined path of a new row)
SessionSave ==
  /\ Len(log) < MaxSessionRequests
  /\ \E parsed \in SessionResumes :
       /\ rows' = SaveResume(rows, DEFAULT_RESUME_ID, parsed,
                             IF IsNullish(GetResume(rows, DEFAULT_RESUME_ID)) THEN 0
                             ELSE Get(GetResume(rows, DEFAULT_RESUME_ID)).filePath)
       /\ log' = Append(log, SessionEntry("save", 200, parsed, None, None))
  /\ UNCHANGED <<pc, resume, optimized, jobDescription, keywordList, response,
                 payload, merged, docXml, docHistory, files>>

\* POST /api/optimize up to the call of the model: the handler holds
\* data.parsed while it waits
OptimizeRead ==
  /\ pc \in {"ready", "optimize"}
  /\ Len(log) < MaxSessionRequests
  /\ IF IsNullish(GetResume(rows, DEFAULT_RESUME_ID))
     THEN /\ log' = Append(log, SessionEntry("optimize", 404, MinimalResume, None, None))
          /\ pc' = "optimize"
          /\ UNCHANGED resume
     ELSE /\ resume' = Get(GetResume(rows, DEFAULT_RESUME_ID)).parsed
          /\ pc' = "awaitLlm"
          /\ UNCHANGED log
  /\ UNCHANGED <<optimized, jobDescription, keywordList, response, payload,
                 merged, docXml, docHistory, rows, files>>

\* POST /api/optimize from the model's answer on: merge into the held
\* data.parsed, saveOptimized
OptimizeStore ==
  /\ pc = "awaitLlm"
  /\ \E reply \in SessionReplies :
       IF OptimizeResumeWithLLM(reply).threw
       THEN /\ log' = Append(log, SessionEntry("optimize", 500, resume, None, reply))
            /\ UNCHANGED <<rows, merged>>
       ELSE \E m \in { MergeOptimizedIntoResume(resume,
                         Get(OptimizeResumeWithLLM(reply).value).optimizedSections) } :
              /\ rows' = SaveOptimized(rows, DEFAULT_RESUME_ID, m)
              /\ merged' = m
              /\ log' = Append(log, SessionEntry("optimize", 200, resume, Some(m), reply))
  /\ pc' = "optimize"
  /\ UNCHANGED <<resume, optimized, jobDescription, keywordList, response,
                 payload, docXml, docHistory, files>>

\* GET /api/export up to the payload it hands to the filler
SessionExport ==
  /\ Len(log) < MaxSessionRequests
  /\ IF IsNullish(GetResume(rows, DEFAULT_RESUME_ID))
     THEN /\ log' = Append(log, SessionEntry("export", 404, MinimalResume, None, None))
          /\ UNCHANGED payload
     ELSE \E data \in { Get(GetResume(rows, DEFAULT_RESUME_ID)) } :
            /\ payload' = BuildTemplatePayload(data.parsed, AsSections(data.optimized))
            /\ log' = Append(log, SessionEntry("export", 200, data.parsed, None, None))
  /\ UNCHANGED <<pc, resume, optimized, jobDescription, keywordList, response,
                 merged, docXml, docHistory, rows, files>>

NextSession ==
  SessionUpload \/ SessionSave \/ OptimizeRead \/ OptimizeStore \/ SessionExport

SpecSession == InitSession /\ [][NextSession]_vars

\* the last answered request is of this kind
LastIs(op) ==
  /\ log # <<>>
  /\ log[Len(log)].op = op
  /\ log[Len(log)].status = 200

\* the position in the log of the last answered request of these kinds, or 0
LastOf(ops) ==
  IF \E n \in 1..Len(log) : log[n].op \in ops /\ log[n].status = 200
  THEN CHOOSE n \in 1..Len(log) :
         /\ log[n].op \in ops /\ log[n].status = 200
         /\ \A k \in (n + 1)..Len(log) : ~(log[k].op \in ops /\ log[k].status = 200)
  ELSE 0

\* C27: after any sequence of upload, save and optimize requests, the payload
\* the export builds takes its values from the most recently stored parsed
\* resume: an optimized result stored before the latest upload or save does
\* not override the values of that newer parsed resume.
C27_ExportReflectsLatest ==
  (LastIs("export") /\ LastOf({"optimize"}) < LastOf({"upload", "save"}))
    => payload = BuildTemplatePayload(log[LastOf({"upload", "save"})].parsed, None)

\* C28: when an optimize request interleaves with a save or an upload, the
\* optimized resume it stores is a merge over the parsed resume that is
\* stored at that moment, not over one that has been replaced since.
C28_NoLostUpdate ==
  LastIs("optimize")
    => rows[DEFAULT_RESUME_ID].optimized_json
         = Some(MergeOptimizedIntoResume(rows[DEFAULT_RESUME_ID].parsed_json,
              Get(OptimizeResumeWithLLM(log[Len(log)].reply).value).optimizedSections))

---------------------------------------------------------------------------
(* lib/db: the connection shared by the callers of one process.  A caller *)
(* runs between two awaits without interruption; the steps of the model   *)
(* are those runs.  In this part pc gives every caller's position,        *)
(* response holds the module's db, connection and initPromise with the    *)
(* promises made so far, and log lists the databases opened and the       *)
(* connections made.                                                      *)

MaxCallers == 2

Callers == 1..MaxCallers

DbOps == { "init", "saveResume", "getResume", "saveOptimized" }

\* what a call of getConnection hands back: the connection itself, or a promise
Settled(con) == [promise |-> 0, value |-> con]
PromiseRef(p) == [promise |-> p, value |-> 0]

\* the promise of the async function started in getConnection: it has run
\* up to its first await, fs.mkdir(DATA_DIR)
NewInitPromise == [stage |-> "mkdirData", value |-> 0]

\* getConnection up to its return: the module's state after it, and what
\* the caller awaits (0 stands for null)
GetConnectionAlways(m) ==
  IF m.connection # 0 THEN [m |-> m, result |-> Settled(m.connection)]
  ELSE [m |-> [m EXCEPT !.promises = Append(@, NewInitPromise),
                        !.initPromise = Len(m.promises) + 1],
        result |-> PromiseRef(Len(m.promises) + 1)]
GetConnection(m) ==
  IF m.connection # 0 THEN [m |-> m, result |-> Settled(m.connection)]
  ELSE IF m.initPromise # 0 THEN [m |-> m, result |-> PromiseRef(m.initPromise)]
  ELSE [m |-> [m EXCEPT !.promises = Append(@, NewInitPromise),
                        !.initPromise = Len(m.promises) + 1],
        result |-> PromiseRef(Len(m.promises) + 1)]

\* a caller: the exported function it called, where it is, what it awaits,
\* the connection it got, and whether the connection existed when it called
IdleCaller == [op |-> "none", at |-> "idle", waits |-> Settled(0), con |-> 0,
               early |-> FALSE]

\* the await of the caller can go on: a value, or a promise that is settled
CanResume(m, waits) ==
  IF waits.promise = 0 THEN TRUE
  ELSE m.promises[waits.promise].stage \in {"resolved", "rejected"}

\* what the await yields: the connection, or 0 with rejected set
Awaited(m, waits) ==
  IF waits.promise = 0 THEN [rejected |-> FALSE, con |-> waits.value]
  ELSE [rejected |-> m.promises[waits.promise].stage = "rejected",
        con |-> m.promises[waits.promise].value]

InitDb ==
  /\ pc = [c \in Callers |-> IdleCaller]
  /\ response = [db |-> 0, connection |-> 0, initPromise |-> 0, promises |-> <<>>]
  /\ IdleStore
  /\ resume = MinimalResume
  /\ optimized = None
  /\ jobDescription = <<>>
  /\ keywordList = <<>>
  /\ payload = <<>>
  /\ merged = MinimalResume
  /\ docXml = <<>>
  /\ docHistory = <<>>

\* a caller enters init, saveResume, getResume or saveOptimized: each of
\* them starts with getConnection, in init, and awaits what it returns
Call ==
  \E c \in Callers, op \in DbOps :
    /\ pc[c].at = "idle"
    /\ \E g \in { GetConnection(response) } :
         /\ response' = g.m
         /\ pc' = [pc EXCEPT ![c] = [op |-> op, at |-> "initAwait", waits |-> g.result,
                                     con |-> 0, early |-> response.connection = 0]]
    /\ UNCHANGED <<resume, optimized, jobDescription, keywordList, payload,
                   merged, docXml, docHistory, rows, log, files>>

\* the async function of getConnection goes on after an await: mkdir of
\* the data directory, mkdir of the uploads directory and new
\* duckdb.Database, then the callback of the database, db = dbInstance and
\* connection = db.connect(); a rejected await rejects the promise
InitPromiseStep ==
  \E p \in 1..Len(response.promises), ok \in BOOLEAN :
    /\ response.promises[p].stage \in {"mkdirData", "mkdirUploads", "open"}
    /\ IF ~ok
       THEN /\ response' = [response EXCEPT !.promises[p].stage = "rejected"]
            /\ UNCHANGED log
       ELSE IF response.promises[p].stage = "mkdirData"
       THEN /\ response' = [response EXCEPT !.promises[p].stage = "mkdirUploads"]
            /\ UNCHANGED log
       ELSE IF response.promises[p].stage = "mkdirUploads"
       THEN /\ response' = [response EXCEPT !.promises[p].stage = "open"]
            /\ log' = Append(log, [op |-> "open", promise |-> p])
       ELSE /\ response' = [response EXCEPT !.promises[p].stage = "resolved",
                                            !.promises[p].value = p,
                                            !.db = p,
                                            !.connection = p]
            /\ log' = Append(log, [op |-> "connect", promise |-> p])
    /\ UNCHANGED <<pc, resume, optimized, jobDescription, keywordList, payload,
                   merged, docXml, docHistory, rows, files>>

\* the caller's await of getConnection returns and it hands the connection
\* to runAsync or allAsync: CREATE TABLE in init, its own statement after
\* it; a rejected promise ends the call
Resume ==
  \E c \in Callers :
    /\ pc[c].at \in {"initAwait", "await"}
    /\ CanResume(response, pc[c].waits)
    /\ pc' = [pc EXCEPT ![c] =
                IF Awaited(response, pc[c].waits).rejected
                THEN [@ EXCEPT !.at = "failed"]
                ELSE [@ EXCEPT !.at = IF pc[c].at = "initAwait" THEN "initRun" ELSE "run",
                               !.con = Awaited(response, pc[c].waits).con]]
    /\ UNCHANGED <<resume, optimized, jobDescription, keywordList, response,
                   payload, merged, docXml, docHistory, rows, log, files>>

\* the statement's callback: init returns, and saveResume, getResume and
\* saveOptimized go on to their own getConnection; an error ends the call
StatementDone ==
  \E c \in Callers, ok \in BOOLEAN :
    /\ pc[c].at \in {"initRun", "run"}
    /\ IF ~ok
       THEN /\ pc' = [pc EXCEPT ![c].at = "failed"]
            /\ UNCHANGED response
       ELSE IF pc[c].at = "run" \/ pc[c].op = "init"
       THEN /\ pc' = [pc EXCEPT ![c].at = "done"]
            /\ UNCHANGED response
       ELSE \E g \in { GetConnection(response) } :
              /\ response' = g.m
              /\ pc' = [pc EXCEPT ![c].at = "await", ![c].waits = g.result]
    /\ UNCHANGED <<resume, optimized, jobDescription, keywordList, payload,
                   merged, docXml, docHistory, rows, log, files>>

NextDb == Call \/ InitPromiseStep \/ Resume \/ StatementDone

SpecDb == InitDb /\ [][NextDb]_vars

\* the databases opened so far
Opens == { n \in 1..Len(log) : log[n].op = "open" }

\* the callers that have handed a connection to a statement
Running == { c \in Callers : pc[c].at \in {"initRun", "run", "done"} }

\* C29: under any interleaving of concurrent callers of init, saveResume,
\* getResume and saveOptimized, the database is opened at most once, every
\* caller obtains the same connection, and no caller runs a statement
\* before the connection exists.
C29_SingleInitialization ==
  /\ Cardinality(Opens) <= 1
  /\ \A c \in Callers :
       (pc[c].at \in {"initRun", "run", "await", "done"} \/ pc[c].con # 0)
         => /\ response.connection # 0
            /\ pc[c].con = response.connection

\* two callers that both called before the connection existed have run
\* their statements on it
C29_Witness ==
  /\ \A c \in Callers : pc[c].early /\ pc[c].at = "done"
  /\ \E c \in Callers : pc[c].op # "init"
  /\ Cardinality(Opens) = 1

---------------------------------------------------------------------------
(* The raw pass of populateTemplate and the order of the payload's keys *)

\* the entries of a payload in the opposite order
Reversed(entries) == [n \in 1..Len(entries) |-> entries[Len(entries) + 1 - n]]

\* C30: in the raw pass the text that replaces `{{k}}` is exactly the escaped
\* payload[k] in the final output, also when a payload value holds the
\* placeholder of another key, and the output does not depend on the order
\* in which the payload's keys are processed.
C30_NotRescanned ==
  pc = "populateTemplate" =>
    /\ RawPass(docHistory[2], payload) = FilledFrom(docHistory[2], payload, 1)
    /\ RawPass(docHistory[2], Reversed(payload)) = RawPass(docHistory[2], payload)

===========================================================================
